---- MODULE Spec2Model ----
(***************************************************************************)
(* A model of slog-logfilter: the glob-lite pattern matcher, the filter    *)
(* rule, the per-handler filter store with its derived cache, the context  *)
(* extractor registry, the call-site resolver and the record handler.      *)
(*                                                                         *)
(* Go strings are TLA+ strings.  Go slices are slice headers               *)
(* [arr, len, cap] over backing arrays kept in a heap, so that two slices  *)
(* sharing a backing array are visible as such.                            *)
(***************************************************************************)
EXTENDS Integers, Sequences, FiniteSets, TLC

VARIABLES
    now,                \* time.Now(), a monotonic clock
    globalLevel,        \* the shared *slog.LevelVar (Handler.globalLevel)
    filterArrays,       \* heap: backing arrays of []LogFilter slices
    attrArrays,         \* heap: backing arrays of []slog.Attr slices
    handlers,           \* the Handler objects, handlers[1] made by NewHandler
    contextExtractors,  \* the registry map key -> extractor
    call,               \* the logging goroutine: its Enabled/Handle call in flight
    probe,              \* a direct call of matchPattern and its result
    caller,             \* the administrating goroutine: its calls so far, the last
                        \* one's arguments and the slice it passed or got back
    locks,              \* the three sync.RWMutex of the package
    threads,            \* goroutines inside an operation: where each one is
    defaultHandler      \* the package's default handler slot, 0 while it is nil

vars == <<now, globalLevel, filterArrays, attrArrays, handlers,
          contextExtractors, call, probe, caller, locks, threads, defaultHandler>>

----------------------------------------------------------------------------
(* Bounds of the model *)

MaxPatternLen == 3      \* longest pattern / value given to matchPattern directly
MaxTime == 2            \* the clock runs from 1 to MaxTime
MaxFilters == 2         \* AddFilter is not called on a list already this long
MaxSetLen == 1          \* longest list given to SetFilters
MaxHandlers == 2        \* handlers that exist at once in SpecDerive
MaxChain == 5           \* handlers that exist at once in SpecAttrs
MaxThreads == 2         \* goroutines calling into the package at once in SpecLocks
MaxStoreCalls == 2      \* calls the administrating goroutine makes in SpecStore
MaxRegistryCalls == 3   \* calls the goroutine makes to the registry in SpecRegistry
MaxShareCalls == 3      \* mutations made to the stores of the handlers in SpecShare
MaxNewCalls == 2        \* calls of New in SpecDefault
MaxPackageCalls == 2    \* calls of the package-level filter functions in SpecDefault

----------------------------------------------------------------------------
(* Package strings, as far as the code uses it *)

HasPrefix(s, prefix) ==
    Len(s) >= Len(prefix) /\ SubSeq(s, 1, Len(prefix)) = prefix

HasSuffix(s, suffix) ==
    Len(s) >= Len(suffix) /\ SubSeq(s, Len(s) - Len(suffix) + 1, Len(s)) = suffix

TrimPrefix(s, prefix) ==
    IF HasPrefix(s, prefix) THEN SubSeq(s, Len(prefix) + 1, Len(s)) ELSE s

TrimSuffix(s, suffix) ==
    IF HasSuffix(s, suffix) THEN SubSeq(s, 1, Len(s) - Len(suffix)) ELSE s

Contains(s, substr) ==
    \E i \in 1..(Len(s) - Len(substr) + 1) : SubSeq(s, i, i + Len(substr) - 1) = substr

\* strings.Index: 0-based index of the first occurrence, -1 if none
Index(s, substr) ==
    LET hits == {i \in 1..(Len(s) - Len(substr) + 1) :
                    SubSeq(s, i, i + Len(substr) - 1) = substr}
    IN  IF hits = {} THEN -1
        ELSE (CHOOSE i \in hits : \A j \in hits : i <= j) - 1

\* strings.LastIndex: 0-based index of the last occurrence, -1 if none
LastIndex(s, substr) ==
    LET hits == {i \in 1..(Len(s) - Len(substr) + 1) :
                    SubSeq(s, i, i + Len(substr) - 1) = substr}
    IN  IF hits = {} THEN -1
        ELSE (CHOOSE i \in hits : \A j \in hits : i >= j) - 1

UpperLetters == "ABCDEFGHIJKLMNOPQRSTUVWXYZ"
LowerLetters == "abcdefghijklmnopqrstuvwxyz"

\* unicode.ToLower on the letters A-Z, every other character unchanged
LowerOf ==
    [c \in {SubSeq(UpperLetters, k, k) : k \in 1..26} |->
        SubSeq(LowerLetters, Index(UpperLetters, c) + 1, Index(UpperLetters, c) + 1)]

RECURSIVE ToLower(_)
ToLower(s) ==
    IF s = "" THEN ""
    ELSE LET c == SubSeq(s, 1, 1)
         IN  (IF c \in DOMAIN LowerOf THEN LowerOf[c] ELSE c)
                 \o ToLower(SubSeq(s, 2, Len(s)))

RECURSIVE TrimSpace(_)
TrimSpace(s) ==
    IF s = "" THEN ""
    ELSE IF SubSeq(s, 1, 1) = " " THEN TrimSpace(SubSeq(s, 2, Len(s)))
    ELSE IF SubSeq(s, Len(s), Len(s)) = " " THEN TrimSpace(SubSeq(s, 1, Len(s) - 1))
    ELSE s

----------------------------------------------------------------------------
(* filter.go: the rule and the matcher *)

ContextPrefix == "context:"
SourceFilePrefix == "source:file"
SourceFunctionPrefix == "source:function"

LevelDebug == -4
LevelInfo == 0
LevelWarn == 4
LevelError == 8

\* ExpiresAt is a *time.Time: nil, the zero time, or an instant of the clock
NilTime == -1
ZeroTime == 0

\* matchPattern otherwise: a pattern of stars alone needs a value to match
matchPattern_StarNeedsValue(pattern, value) ==
    IF pattern = "" THEN FALSE
    ELSE LET startsWithWildcard == HasPrefix(pattern, "*")
             endsWithWildcard == HasSuffix(pattern, "*")
         IN  CASE startsWithWildcard /\ endsWithWildcard ->
                     LET middle == TrimSuffix(TrimPrefix(pattern, "*"), "*")
                     IN  IF middle = "" THEN value # "" ELSE Contains(value, middle)
               [] endsWithWildcard /\ ~startsWithWildcard ->
                     HasPrefix(value, TrimSuffix(pattern, "*"))
               [] startsWithWildcard /\ ~endsWithWildcard ->
                     HasSuffix(value, TrimPrefix(pattern, "*"))
               [] OTHER -> pattern = value

\* matchPattern otherwise: the suffix case tested as a prefix
matchPattern_SuffixAsPrefix(pattern, value) ==
    IF pattern = "" THEN FALSE
    ELSE LET startsWithWildcard == HasPrefix(pattern, "*")
             endsWithWildcard == HasSuffix(pattern, "*")
         IN  CASE startsWithWildcard /\ endsWithWildcard ->
                     LET middle == TrimSuffix(TrimPrefix(pattern, "*"), "*")
                     IN  IF middle = "" THEN TRUE ELSE Contains(value, middle)
               [] endsWithWildcard /\ ~startsWithWildcard ->
                     HasPrefix(value, TrimSuffix(pattern, "*"))
               [] startsWithWildcard /\ ~endsWithWildcard ->
                     HasPrefix(value, TrimPrefix(pattern, "*"))
               [] OTHER -> pattern = value

\* matchPattern otherwise: a trailing star decides first, whatever the pattern begins with
matchPattern_PrefixFirst(pattern, value) ==
    IF pattern = "" THEN FALSE
    ELSE IF HasSuffix(pattern, "*")
         THEN HasPrefix(value, TrimSuffix(pattern, "*"))
    ELSE IF HasPrefix(pattern, "*")
         THEN HasSuffix(value, TrimPrefix(pattern, "*"))
    ELSE pattern = value

matchPattern(pattern, value) ==
    IF pattern = "" THEN FALSE
    ELSE LET startsWithWildcard == HasPrefix(pattern, "*")
             endsWithWildcard == HasSuffix(pattern, "*")
         IN  CASE startsWithWildcard /\ endsWithWildcard ->
                     LET middle == TrimSuffix(TrimPrefix(pattern, "*"), "*")
                     IN  IF middle = "" THEN TRUE ELSE Contains(value, middle)
               [] endsWithWildcard /\ ~startsWithWildcard ->
                     HasPrefix(value, TrimSuffix(pattern, "*"))
               [] startsWithWildcard /\ ~endsWithWildcard ->
                     HasSuffix(value, TrimPrefix(pattern, "*"))
               [] OTHER -> pattern = value

\* ParseLevel otherwise: the names are compared as they are written
ParseLevel_CaseSensitive(level) ==
    LET s == TrimSpace(level)
    IN  CASE s = "debug" -> LevelDebug
          [] s = "info" -> LevelInfo
          [] s = "warn" \/ s = "warning" -> LevelWarn
          [] s = "error" -> LevelError
          [] OTHER -> LevelInfo

ParseLevel(level) ==
    LET s == ToLower(TrimSpace(level))
    IN  CASE s = "debug" -> LevelDebug
          [] s = "info" -> LevelInfo
          [] s = "warn" \/ s = "warning" -> LevelWarn
          [] s = "error" -> LevelError
          [] OTHER -> LevelInfo

\* IsExpired otherwise: expired from the instant of expiry on
IsExpired_AtExpiry(f) ==
    IF f.ExpiresAt = NilTime \/ f.ExpiresAt = ZeroTime THEN FALSE
    ELSE now >= f.ExpiresAt

\* IsExpired otherwise: time.Now().Before(*f.ExpiresAt)
IsExpired_Before(f) ==
    IF f.ExpiresAt = NilTime \/ f.ExpiresAt = ZeroTime THEN FALSE
    ELSE now < f.ExpiresAt

\* time.Now().After(*f.ExpiresAt), unless there is no expiry
IsExpired(f) ==
    IF f.ExpiresAt = NilTime \/ f.ExpiresAt = ZeroTime THEN FALSE
    ELSE now > f.ExpiresAt

\* IsActive otherwise: the expiry is not looked at when a rule is evaluated
IsActive_EnabledOnly(f) == f.Enabled

IsActive(f) == f.Enabled /\ ~IsExpired(f)

Matches(f, value) == matchPattern(f.Pattern, value)

IsContextFilter(f) == HasPrefix(f.Type, ContextPrefix)

ContextKey(f) ==
    IF ~IsContextFilter(f) THEN "" ELSE TrimPrefix(f.Type, ContextPrefix)

\* IsSourceFileFilter otherwise: the type only has to begin with "source:file"
IsSourceFileFilter_Prefix(f) == HasPrefix(f.Type, SourceFilePrefix)

IsSourceFileFilter(f) == f.Type = SourceFilePrefix

IsSourceFunctionFilter(f) == f.Type = SourceFunctionPrefix

IsSourceFilter(f) == IsSourceFileFilter(f) \/ IsSourceFunctionFilter(f)

AttributeKey(f) ==
    IF IsContextFilter(f) \/ IsSourceFilter(f) THEN "" ELSE f.Type

HasOutputLevel(f) == f.OutputLevel # ""

GetOutputLevel(f, originalLevel) ==
    IF f.OutputLevel = "" THEN originalLevel ELSE ParseLevel(f.OutputLevel)

----------------------------------------------------------------------------
(* Go slices: a slice header over a backing array of the heap *)

Min(S) == CHOOSE x \in S : \A y \in S : x <= y

NilSlice == [arr |-> 0, len |-> 0, cap |-> 0]

\* the elements a slice header gives access to: arr[0:len]
Elems(heap, s) == [i \in 1..s.len |-> heap[s.arr][i]]

\* runtime.growslice for these element sizes: double, or the needed length if
\* that is more (40-byte Attr and 80-byte LogFilter hit exact size classes)
GrowCap(oldCap, newLen) ==
    IF newLen > 2 * oldCap THEN newLen ELSE 2 * oldCap

\* make([]T, n, c): a fresh backing array; no array at all when c = 0
MakeSlice(heap, elems, c, zero) ==
    IF c = 0 THEN [heap |-> heap, slice |-> NilSlice]
    ELSE [heap |-> Append(heap, [i \in 1..c |->
                                    IF i <= Len(elems) THEN elems[i] ELSE zero]),
          slice |-> [arr |-> Len(heap) + 1, len |-> Len(elems), cap |-> c]]

\* append(s, xs...): in place when the capacity allows, else into a grown copy
GoAppend(heap, s, xs, zero) ==
    LET newLen == s.len + Len(xs)
    IN  IF Len(xs) = 0 THEN [heap |-> heap, slice |-> s]
        ELSE IF newLen <= s.cap
        THEN [heap |-> [heap EXCEPT ![s.arr] =
                            [i \in 1..s.cap |->
                                IF i > s.len /\ i <= newLen THEN xs[i - s.len] ELSE @[i]]],
              slice |-> [s EXCEPT !.len = newLen]]
        ELSE MakeSlice(heap, Elems(heap, s) \o xs, GrowCap(s.cap, newLen), zero)

ZeroFilter ==
    [Type |-> "", Pattern |-> "", Level |-> "", OutputLevel |-> "",
     Enabled |-> FALSE, ExpiresAt |-> NilTime]

ZeroAttr == [Key |-> "", Value |-> [Kind |-> "String", Str |-> "", Num |-> 0]]

\* The garbage collector: backing arrays of filters no handler and no call
\* refers to any more are dropped.  The arrays left are numbered in the order
\* the handlers, and then the call, refer to them.
FilterRefs(hs, c) ==
    [i \in 1..(Len(hs) + 1) |->
        IF i <= Len(hs) THEN hs[i].filters.arr
        ELSE IF c.pc = "evaluate" THEN c.filters.arr ELSE 0]

FirstRef(refs, id) == Min({i \in 1..Len(refs) : refs[i] = id})

Rank(refs, id) ==
    IF id = 0 THEN 0
    ELSE Cardinality({j \in {refs[i] : i \in 1..Len(refs)} \ {0} :
                        FirstRef(refs, j) <= FirstRef(refs, id)})

Collect(fa, hs, c) ==
    LET refs == FilterRefs(hs, c)
        live == {refs[i] : i \in 1..Len(refs)} \ {0}
        ren(s) == [s EXCEPT !.arr = Rank(refs, s.arr)]
    IN  [filterArrays |->
            [k \in 1..Cardinality(live) |->
                fa[CHOOSE id \in live : Rank(refs, id) = k]],
         handlers |-> [i \in 1..Len(hs) |-> [hs[i] EXCEPT !.filters = ren(@)]],
         call |-> IF c.pc = "evaluate" THEN [c EXCEPT !.filters = ren(@)] ELSE c]

----------------------------------------------------------------------------
(* handler.go: the filter store of a handler *)

\* updateLowestLevel otherwise: only the first active rule is looked at
updateLowestLevel_FirstOnly(filters) ==
    LET active == {i \in 1..Len(filters) : IsActive(filters[i])}
    IN  [lowestLevel |->
            IF active = {} THEN LevelError + 1
            ELSE ParseLevel(filters[Min(active)].Level),
         hasSourceFilters |-> \E i \in active : IsSourceFilter(filters[i])]

\* updateLowestLevel otherwise: disabled and expired rules count as well
updateLowestLevel_CountsInactive(filters) ==
    [lowestLevel |->
        Min({LevelError + 1} \cup {ParseLevel(filters[i].Level) : i \in 1..Len(filters)}),
     hasSourceFilters |-> \E i \in 1..Len(filters) : IsSourceFilter(filters[i])]

\* the two cached fields, computed from a rule list at the current time
updateLowestLevel(filters) ==
    LET active == {i \in 1..Len(filters) : IsActive(filters[i])}
    IN  [lowestLevel |->
            Min({LevelError + 1} \cup {ParseLevel(filters[i].Level) : i \in active}),
         hasSourceFilters |-> \E i \in active : IsSourceFilter(filters[i])]

\* h.filters as a sequence, read through the handler's slice header
FiltersOf(fa, h) == Elems(fa, h.filters)

\* the part of SetFilters/AddFilter/RemoveFilter after the new slice is built
Store(h, res) ==
    LET cache == updateLowestLevel(Elems(res.heap, res.slice))
    IN  [heap |-> res.heap,
         h |-> [h EXCEPT !.filters = res.slice,
                         !.lowestLevel = cache.lowestLevel,
                         !.hasSourceFilters = cache.hasSourceFilters]]

\* DoSetFilters otherwise: copy into the array already there when it is long enough
DoSetFilters_InPlace(fa, h, filters) ==
    IF Len(filters) > 0 /\ Len(filters) <= h.filters.cap
    THEN Store(h, [heap |-> [fa EXCEPT ![h.filters.arr] =
                                [i \in 1..h.filters.cap |->
                                    IF i <= Len(filters) THEN filters[i] ELSE @[i]]],
                   slice |-> [h.filters EXCEPT !.len = Len(filters)]])
    ELSE Store(h, MakeSlice(fa, filters, Len(filters), ZeroFilter))

DoSetFilters(fa, h, filters) ==
    Store(h, MakeSlice(fa, filters, Len(filters), ZeroFilter))

\* DoAddFilter otherwise: the new rule is put in front
DoAddFilter_Prepends(fa, h, filter) ==
    Store(h, MakeSlice(fa, <<filter>> \o FiltersOf(fa, h), h.filters.len + 1, ZeroFilter))

DoAddFilter(fa, h, filter) ==
    Store(h, GoAppend(fa, h.filters, <<filter>>, ZeroFilter))

\* Kept otherwise: a rule goes when its type or its pattern equals the given one
Kept_EitherEquals(filters, filterType, pattern) ==
    SelectSeq(filters, LAMBDA f : f.Type # filterType /\ f.Pattern # pattern)

Kept(filters, filterType, pattern) ==
    SelectSeq(filters, LAMBDA f : f.Type # filterType \/ f.Pattern # pattern)

DoRemoveFilter(fa, h, filterType, pattern) ==
    Store(h, MakeSlice(fa, Kept(FiltersOf(fa, h), filterType, pattern),
                       h.filters.len, ZeroFilter))

\* DoClearFilters otherwise: the two cached fields stay as they were
DoClearFilters_KeepsCache(fa, h) ==
    [heap |-> fa, h |-> [h EXCEPT !.filters = NilSlice]]

DoClearFilters(fa, h) ==
    [heap |-> fa,
     h |-> [h EXCEPT !.filters = NilSlice,
                     !.lowestLevel = LevelError + 1,
                     !.hasSourceFilters = FALSE]]

\* SetFilters called with the caller's slice arg: its elements are copied
DoSetFiltersFrom(fa, h, arg) == DoSetFilters(fa, h, Elems(fa, arg))

\* DoGetFilters otherwise: the store's own slice is handed out
DoGetFilters_ReturnsStore(fa, h) == [heap |-> fa, slice |-> h.filters]

\* GetFilters: make([]LogFilter, len(h.filters)) and copy
DoGetFilters(fa, h) == MakeSlice(fa, FiltersOf(fa, h), h.filters.len, ZeroFilter)

\* the list a GetFilters call made now returns
Got(fa, h) == Elems(DoGetFilters(fa, h).heap, DoGetFilters(fa, h).slice)

----------------------------------------------------------------------------
(* handler.go: attribute flattening *)

StringValue(str) == [Kind |-> "String", Str |-> str, Num |-> 0]
Int64Value(n) == [Kind |-> "Int64", Str |-> "", Num |-> n]
Attr(key, value) == [Key |-> key, Value |-> value]

Digits == "0123456789"

\* strconv.FormatInt for the non-negative numbers of the model
RECURSIVE Itoa(_)
Itoa(n) ==
    IF n < 10 THEN SubSeq(Digits, n + 1, n + 1)
    ELSE Itoa(n \div 10) \o SubSeq(Digits, (n % 10) + 1, (n % 10) + 1)

attrValueToString(v) ==
    CASE v.Kind = "String" -> v.Str
      [] v.Kind = "Int64" -> Itoa(v.Num)
      [] OTHER -> v.Str

\* the map Handle builds: pre-bound attributes first, the record's own after,
\* a later assignment to the same key replacing the earlier one
FlattenAttrs(preformattedAttrs, recordAttrs) ==
    LET all == preformattedAttrs \o recordAttrs
        keys == {all[i].Key : i \in 1..Len(all)}
        last(k) == CHOOSE i \in 1..Len(all) :
                      /\ all[i].Key = k
                      /\ \A j \in 1..Len(all) : all[j].Key = k => j <= i
    IN  [k \in keys |-> attrValueToString(all[last(k)].Value)]

----------------------------------------------------------------------------
(* context.go: the extractor registry *)

\* a context.Context: nil, or a carrier of request-scoped values
NilCtx == [isNil |-> TRUE, user |-> ""]
Background == [isNil |-> FALSE, user |-> ""]
WithUser(u) == [isNil |-> FALSE, user |-> u]

\* The extractors an application registers.  "userID" is the README's: the
\* context's value and true when it is set, "" and false otherwise.
ExtractorPool == {"userID"}

\* "userOrAnonymous" reports not-found with a value all the same; every other
\* function is one that returns "" and false
RunExtractor(extractor, ctx) ==
    CASE extractor = "userID" ->
            IF ctx.user # "" THEN [value |-> ctx.user, found |-> TRUE]
            ELSE [value |-> "", found |-> FALSE]
      [] extractor = "userOrAnonymous" ->
            IF ctx.user # "" THEN [value |-> ctx.user, found |-> TRUE]
            ELSE [value |-> "anonymous", found |-> FALSE]
      [] OTHER -> [value |-> "", found |-> FALSE]

\* keys an application registers extractors under
ExtractorKeys == {"user"}

\* the map: every key of the model, "nil" for a key the map does not hold
EmptyRegistry == [k \in ExtractorKeys |-> "nil"]

\* a nil ContextExtractor held by the map under a key
NilFunc == "nilFunc"

GetContextExtractor(registry, key) ==
    IF key \in DOMAIN registry /\ registry[key] # NilFunc THEN registry[key] ELSE "nil"

\* DoRegister otherwise: a key that has an extractor keeps it
DoRegister_FirstStays(registry, key, extractor) ==
    IF registry[key] # "nil" THEN registry ELSE [registry EXCEPT ![key] = extractor]

\* contextExtractors[key] = extractor
DoRegister(registry, key, extractor) == [registry EXCEPT ![key] = extractor]

\* delete(contextExtractors, key)
DoUnregister(registry, key) == [registry EXCEPT ![key] = "nil"]

\* contextExtractors = make(map[string]ContextExtractor)
DoClear(registry) == [k \in DOMAIN registry |-> "nil"]

\* the keys the map holds
KeysOf(registry) == {k \in DOMAIN registry : registry[k] # "nil"}

\* ContextExtractorKeys: one append per key of the map, in the order the
\* range over the map happens to take
ContextExtractorKeys(registry) ==
    {keys \in UNION {[1..n -> KeysOf(registry)] : n \in {Cardinality(KeysOf(registry))}} :
        \A i, j \in DOMAIN keys : keys[i] = keys[j] => i = j}

\* extractFromContext otherwise: a value that is not empty counts as found
extractFromContext_ValueDecides(registry, ctx, key) ==
    IF ctx.isNil THEN [value |-> "", found |-> FALSE]
    ELSE LET extractor == GetContextExtractor(registry, key)
         IN  IF extractor = "nil" THEN [value |-> "", found |-> FALSE]
             ELSE [value |-> RunExtractor(extractor, ctx).value,
                   found |-> RunExtractor(extractor, ctx).value # ""]

extractFromContext(registry, ctx, key) ==
    IF ctx.isNil THEN [value |-> "", found |-> FALSE]
    ELSE LET extractor == GetContextExtractor(registry, key)
         IN  IF extractor = "nil" THEN [value |-> "", found |-> FALSE]
             ELSE RunExtractor(extractor, ctx)

----------------------------------------------------------------------------
(* handler.go: the call-site resolver *)

\* runtime.CallersFrames: the frame of a program counter
FrameOf(pc) ==
    CASE pc = 1 -> [File |-> "/w/p/a.go", Function |-> "x.io/m/p.(*S).Run"]
      [] pc = 2 -> [File |-> "/go/b.go", Function |-> "x.io/q.Do"]
      [] pc = 3 -> [File |-> "", Function |-> "main.main"]
      [] pc = 4 -> [File |-> "/w/x.go", Function |-> ""]
      [] OTHER -> [File |-> "", Function |-> ""]

\* filepath.Base of a clean slash-separated path
Base(path) ==
    IF path = "" THEN "."
    ELSE SubSeq(path, LastIndex(path, "/") + 2, Len(path))

\* the elements of a clean slash-separated path, in order
RECURSIVE Elements(_)
Elements(path) ==
    IF path = "" THEN <<>>
    ELSE IF SubSeq(path, 1, 1) = "/" THEN Elements(SubSeq(path, 2, Len(path)))
    ELSE IF Index(path, "/") < 0 THEN <<path>>
    ELSE <<SubSeq(path, 1, Index(path, "/"))>>
            \o Elements(SubSeq(path, Index(path, "/") + 2, Len(path)))

RECURSIVE Joined(_)
Joined(elements) ==
    IF elements = <<>> THEN ""
    ELSE IF Len(elements) = 1 THEN elements[1]
    ELSE elements[1] \o "/" \o Joined(Tail(elements))

\* how many leading elements two paths have in common
CommonElements(base, targ) ==
    CHOOSE n \in 0..Len(base) :
        /\ n <= Len(targ)
        /\ SubSeq(base, 1, n) = SubSeq(targ, 1, n)
        /\ ~(n < Len(base) /\ n < Len(targ) /\ base[n + 1] = targ[n + 1])

\* ".." for each element left of the base after the first n, then the
\* elements left of the target
Climb(base, targ, n) ==
    Joined([i \in 1..(Len(base) - n) |-> ".."] \o SubSeq(targ, n + 1, Len(targ)))

RelOfElements(base, targ) == Climb(base, targ, CommonElements(base, targ))

\* filepath.Rel of two clean paths: [rel, ok].  It fails when one path is
\* absolute and the other is not; otherwise the result climbs with ".." out
\* of what is left of the base after the common elements and descends into
\* what is left of the target.
Rel(basepath, targpath) ==
    IF targpath = basepath THEN [rel |-> ".", ok |-> TRUE]
    ELSE IF HasPrefix(basepath, "/") # HasPrefix(targpath, "/")
    THEN [rel |-> "", ok |-> FALSE]
    ELSE [rel |-> RelOfElements(Elements(basepath), Elements(targpath)), ok |-> TRUE]

\* formatSourcePath otherwise: whatever Rel gives is returned
formatSourcePath_AnyRel(workDir, filePath, functionName) ==
    LET r == Rel(workDir, filePath)
        lastSlash == LastIndex(functionName, "/")
        afterSlash == SubSeq(functionName, lastSlash + 2, Len(functionName))
        dotIdx == Index(afterSlash, ".")
    IN  IF workDir # "" /\ r.ok THEN r.rel
        ELSE IF functionName # "" /\ lastSlash >= 0 /\ dotIdx >= 0
        THEN "@" \o SubSeq(functionName, 1, lastSlash + 1 + dotIdx)
                 \o "/" \o Base(filePath)
        ELSE Base(filePath)

formatSourcePath(workDir, filePath, functionName) ==
    LET r == Rel(workDir, filePath)
        lastSlash == LastIndex(functionName, "/")
        afterSlash == SubSeq(functionName, lastSlash + 2, Len(functionName))
        dotIdx == Index(afterSlash, ".")
    IN  IF workDir # "" /\ r.ok /\ ~HasPrefix(r.rel, "..") THEN r.rel
        ELSE IF functionName # "" /\ lastSlash >= 0 /\ dotIdx >= 0
        THEN "@" \o SubSeq(functionName, 1, lastSlash + 1 + dotIdx)
                 \o "/" \o Base(filePath)
        ELSE Base(filePath)

\* FunctionName otherwise: the text after the last '.' of the name
FunctionName_AfterLastDot(fn) ==
    IF LastIndex(fn, ".") >= 0 THEN SubSeq(fn, LastIndex(fn, ".") + 2, Len(fn)) ELSE fn

\* extractSource, the function part: frame.Function without its package path
FunctionName(fn) ==
    LET lastSlash == LastIndex(fn, "/")
        afterSlash == SubSeq(fn, lastSlash + 2, Len(fn))
    IN  IF fn = "" THEN ""
        ELSE IF lastSlash >= 0
             THEN IF Index(afterSlash, ".") >= 0
                  THEN SubSeq(afterSlash, Index(afterSlash, ".") + 2, Len(afterSlash))
                  ELSE fn
        ELSE IF Index(fn, ".") >= 0
             THEN SubSeq(fn, Index(fn, ".") + 2, Len(fn))
        ELSE fn

extractSource(workDir, pc) ==
    LET frame == FrameOf(pc)
    IN  [file |-> IF frame.File # ""
                  THEN formatSourcePath(workDir, frame.File, frame.Function) ELSE "",
         function |-> FunctionName(frame.Function)]

----------------------------------------------------------------------------
(* handler.go: Enabled and Handle *)

\* Candidate otherwise: a source rule has a value even when none was resolved
Candidate_EmptySourceFound(f, attrs, registry, ctx, src) ==
    CASE IsSourceFileFilter(f) -> [value |-> src.file, found |-> TRUE]
      [] IsSourceFunctionFilter(f) -> [value |-> src.function, found |-> TRUE]
      [] IsContextFilter(f) -> extractFromContext(registry, ctx, ContextKey(f))
      [] OTHER ->
            IF AttributeKey(f) \in DOMAIN attrs
            THEN [value |-> attrs[AttributeKey(f)], found |-> TRUE]
            ELSE [value |-> "", found |-> FALSE]

\* the value a rule is matched against for this record, and whether there is one
Candidate(f, attrs, registry, ctx, src) ==
    CASE IsSourceFileFilter(f) -> [value |-> src.file, found |-> src.file # ""]
      [] IsSourceFunctionFilter(f) ->
            [value |-> src.function, found |-> src.function # ""]
      [] IsContextFilter(f) -> extractFromContext(registry, ctx, ContextKey(f))
      [] OTHER ->
            IF AttributeKey(f) \in DOMAIN attrs
            THEN [value |-> attrs[AttributeKey(f)], found |-> TRUE]
            ELSE [value |-> "", found |-> FALSE]

\* MatchLoop otherwise: the matching rule with the lowest threshold wins
MatchLoop_LowestWins(filters, i, attrs, registry, ctx, src) ==
    LET hits == {j \in i..Len(filters) :
                    /\ IsActive(filters[j])
                    /\ Candidate(filters[j], attrs, registry, ctx, src).found
                    /\ Matches(filters[j],
                               Candidate(filters[j], attrs, registry, ctx, src).value)}
    IN  IF hits = {} THEN 0
        ELSE CHOOSE j \in hits : \A k \in hits :
                \/ ParseLevel(filters[j].Level) < ParseLevel(filters[k].Level)
                \/ ParseLevel(filters[j].Level) = ParseLevel(filters[k].Level) /\ j <= k

\* the loop of Handle from rule i on: the index of the rule that sets
\* matchedFilter, 0 when the loop ends without one
RECURSIVE MatchLoop(_, _, _, _, _, _)
MatchLoop(filters, i, attrs, registry, ctx, src) ==
    IF i > Len(filters) THEN 0
    ELSE IF ~IsActive(filters[i])
    THEN MatchLoop(filters, i + 1, attrs, registry, ctx, src)
    ELSE LET c == Candidate(filters[i], attrs, registry, ctx, src)
         IN  IF c.found /\ Matches(filters[i], c.value) THEN i
             ELSE MatchLoop(filters, i + 1, attrs, registry, ctx, src)

NoSource == [file |-> "", function |-> ""]

\* TransformedRecord otherwise: the record is passed on as it came
TransformedRecord_KeepLevel(r, f) == r

\* slog.NewRecord with the transformed level, then every attribute added back
TransformedRecord(r, f) ==
    [Time |-> r.Time, Level |-> GetOutputLevel(f, r.Level),
     Message |-> r.Message, PC |-> r.PC, Attrs |-> r.Attrs]

\* SourceOf otherwise: the call site is resolved for every record
SourceOf_Eager(workDir, hasSourceFilters, r) ==
    [calls |-> 1, src |-> extractSource(workDir, r.PC)]

\* Handle before the rule loop: sourceFile and sourceFunction, left empty
\* unless the snapshot has source rules and the record a call site.  calls
\* is history: the number of calls of extractSource made for them.
SourceOf(workDir, hasSourceFilters, r) ==
    IF hasSourceFilters /\ r.PC # 0
    THEN [calls |-> 1, src |-> extractSource(workDir, r.PC)]
    ELSE [calls |-> 0, src |-> NoSource]

\* Evaluate otherwise: a winning rule can only lower the threshold
Evaluate_ElevateOnly(workDir, effectiveLevel, attrs, filters, hasSourceFilters, registry, ctx, r) ==
    LET src == SourceOf(workDir, hasSourceFilters, r).src
        m == MatchLoop(filters, 1, attrs, registry, ctx, src)
        level == IF m # 0 /\ ParseLevel(filters[m].Level) < effectiveLevel
                 THEN ParseLevel(filters[m].Level) ELSE effectiveLevel
    IN  [matched |-> m, effectiveLevel |-> level,
         resolved |-> SourceOf(workDir, hasSourceFilters, r).calls,
         emitted |-> ~(r.Level < level),
         record |-> IF m # 0 /\ HasOutputLevel(filters[m])
                    THEN TransformedRecord(r, filters[m]) ELSE r]

\* Handle after the snapshot: call-site resolution, the rule loop, the level
\* check and the record handed to the inner handler.  effectiveLevel comes in
\* as the global level Handle read at its start.
Evaluate(workDir, effectiveLevel, attrs, filters, hasSourceFilters, registry, ctx, r) ==
    LET src == SourceOf(workDir, hasSourceFilters, r).src
        m == MatchLoop(filters, 1, attrs, registry, ctx, src)
        level == IF m # 0 THEN ParseLevel(filters[m].Level) ELSE effectiveLevel
    IN  [matched |-> m, effectiveLevel |-> level,
         resolved |-> SourceOf(workDir, hasSourceFilters, r).calls,
         emitted |-> ~(r.Level < level),
         record |-> IF m # 0 /\ HasOutputLevel(filters[m])
                    THEN TransformedRecord(r, filters[m]) ELSE r]

\* CacheAdmits otherwise: a level equal to the cached one is rejected
CacheAdmits_Strict(level, lowestLevel) == level > lowestLevel

\* the last line of Enabled: return level >= lowestLevel
CacheAdmits(level, lowestLevel) == level >= lowestLevel

\* Enabled with both of its reads made in the current state
EnabledNow(h, level) ==
    IF level >= globalLevel THEN TRUE ELSE CacheAdmits(level, handlers[h].lowestLevel)

\* Handle run from start to end on handler value hr over the given heaps,
\* global level and registry: what it decides
HandleOn(hr, global, filterHeap, attrHeap, registry, ctx, r) ==
    Evaluate(hr.workDir, global,
             FlattenAttrs(Elems(attrHeap, hr.preformattedAttrs), r.Attrs),
             FiltersOf(filterHeap, hr), hr.hasSourceFilters, registry, ctx, r)

\* the same on handler h in the current state
HandleNow(h, ctx, r) ==
    HandleOn(handlers[h], globalLevel, filterArrays, attrArrays, contextExtractors, ctx, r)

----------------------------------------------------------------------------
(* The inputs the environment draws from *)

\* rules an administrator installs
DebugJobA == [Type |-> "job", Pattern |-> "a*", Level |-> "debug",
              OutputLevel |-> "Warn", Enabled |-> TRUE, ExpiresAt |-> NilTime]
ErrorUser == [Type |-> "context:user", Pattern |-> "ab", Level |-> "ERROR",
              OutputLevel |-> "error", Enabled |-> TRUE, ExpiresAt |-> 1]
DebugRun == [Type |-> "source:function", Pattern |-> "*Run", Level |-> " debug",
             OutputLevel |-> "", Enabled |-> TRUE, ExpiresAt |-> NilTime]

FilterPool == {DebugJobA, ErrorUser, DebugRun}

RECURSIVE SeqsUpTo(_, _)
SeqsUpTo(S, n) ==
    IF n = 0 THEN {<<>>}
    ELSE LET shorter == SeqsUpTo(S, n - 1)
         IN  shorter \cup {Append(q, x) : q \in shorter, x \in S}

RemovePairs == {<<f.Type, f.Pattern>> : f \in FilterPool}

GlobalLevels == {LevelInfo, LevelWarn}
RecordLevels == {LevelDebug, LevelInfo, LevelWarn, LevelError}

JobAB == Attr("job", StringValue("ab"))
Job7 == Attr("job", Int64Value(7))
JobB == Attr("job", StringValue("b"))

Record(level, pc, attrs) ==
    [Time |-> 5, Level |-> level, Message |-> "msg", PC |-> pc, Attrs |-> attrs]

\* the log calls of the application: a context and a record
LogCalls ==
    {[ctx |-> WithUser("ab"), r |-> Record(LevelDebug, 0, <<JobAB>>)],
     [ctx |-> WithUser("ab"), r |-> Record(LevelInfo, 1, <<>>)],
     [ctx |-> Background, r |-> Record(LevelInfo, 0, <<JobAB>>)],
     [ctx |-> NilCtx, r |-> Record(LevelDebug, 1, <<Job7>>)],
     [ctx |-> Background, r |-> Record(LevelWarn, 2, <<JobB>>)]}

\* attribute lists given to WithAttrs
AttrLists == {<<JobAB>>, <<Job7>>, <<JobB, Job7>>}

InnerResults == {"nil", "err"}

----------------------------------------------------------------------------
(* The state after NewHandler *)

IdleCall ==
    [pc |-> "idle", op |-> "", h |-> 0, ctx |-> NilCtx, level |-> 0,
     r |-> Record(0, 0, <<>>), effectiveLevel |-> 0, attrs |-> <<>>,
     filters |-> NilSlice, hasSourceFilters |-> FALSE, snapshot |-> <<>>,
     enabled |-> FALSE, matched |-> 0, emitted |-> FALSE,
     sent |-> Record(0, 0, <<>>), inner |-> <<>>, ret |-> "nil", invoked |-> <<>>,
     resolved |-> 0]

IdleProbe == [pc |-> "idle", pattern |-> "", value |-> "", result |-> FALSE]

\* the administrating goroutine before its first call.  slice is the slice it
\* holds and from the call it has it from (the argument of SetFilters, the
\* result of GetFilters); before is
\* history: the rules of the store when the last call was made; log is
\* history: the registry calls made so far.
IdleCaller ==
    [n |-> 0, op |-> "", slice |-> NilSlice, from |-> "", filter |-> ZeroFilter,
     filterType |-> "", pattern |-> "", before |-> <<>>, log |-> <<>>, keys |-> <<>>,
     level |-> 0, pc |-> "idle", target |-> 0, returned |-> "none", got |-> <<>>]

\* a sync.RWMutex: the goroutine holding it for writing (0: none), those
\* holding it for reading, those blocked in Lock and those blocked in RLock
FreeMutex == [writer |-> 0, readers |-> {}, pending |-> {}, waiting |-> {}]

FreeLocks ==
    [filtersLock |-> FreeMutex, contextExtractorsLock |-> FreeMutex,
     defaultHandlerLock |-> FreeMutex]

Threads == 1..MaxThreads

\* left is what the goroutine has still to do of the operation it is in
IdleThreads == [t \in Threads |-> [pc |-> "idle", op |-> "", left |-> <<>>]]

\* NewHandler; the inner handler is the list of what was bound to it.
\* parent and given are history: the handler it was derived from and the
\* attributes given at its derivation.
NewHandler ==
    [inner |-> <<>>, filters |-> NilSlice, lowestLevel |-> LevelError + 1,
     hasSourceFilters |-> FALSE, preformattedAttrs |-> NilSlice, workDir |-> "/w",
     parent |-> 0, given |-> <<>>]

Init ==
    /\ now = 1
    /\ defaultHandler = 0
    /\ globalLevel = LevelInfo
    /\ filterArrays = <<>>
    /\ attrArrays = <<>>
    /\ handlers = <<NewHandler>>
    /\ contextExtractors = EmptyRegistry
    /\ call = IdleCall
    /\ probe = IdleProbe
    /\ caller = IdleCaller
    /\ locks = FreeLocks
    /\ threads = IdleThreads

----------------------------------------------------------------------------
(* Actions: administration of the filter store of handler h *)

Commit(fa, hs, c) ==
    LET g == Collect(fa, hs, c)
    IN  /\ filterArrays' = g.filterArrays
        /\ handlers' = g.handlers
        /\ call' = g.call

SetFilters(h, filters) ==
    /\ LET res == DoSetFilters(filterArrays, handlers[h], filters)
       IN  Commit(res.heap, [handlers EXCEPT ![h] = res.h], call)
    /\ UNCHANGED <<defaultHandler, now, globalLevel, attrArrays, contextExtractors, probe, caller, locks, threads>>

AddFilter(h, filter) ==
    /\ handlers[h].filters.len < MaxFilters
    /\ LET res == DoAddFilter(filterArrays, handlers[h], filter)
       IN  Commit(res.heap, [handlers EXCEPT ![h] = res.h], call)
    /\ UNCHANGED <<defaultHandler, now, globalLevel, attrArrays, contextExtractors, probe, caller, locks, threads>>

RemoveFilter(h, filterType, pattern) ==
    /\ LET res == DoRemoveFilter(filterArrays, handlers[h], filterType, pattern)
       IN  Commit(res.heap, [handlers EXCEPT ![h] = res.h], call)
    /\ UNCHANGED <<defaultHandler, now, globalLevel, attrArrays, contextExtractors, probe, caller, locks, threads>>

ClearFilters(h) ==
    /\ LET res == DoClearFilters(filterArrays, handlers[h])
       IN  Commit(res.heap, [handlers EXCEPT ![h] = res.h], call)
    /\ UNCHANGED <<defaultHandler, now, globalLevel, attrArrays, contextExtractors, probe, caller, locks, threads>>

(* Actions: the dynamic level, the clock, the registry *)

SetLevel(level) ==
    /\ globalLevel' = level
    /\ UNCHANGED <<defaultHandler, now, filterArrays, attrArrays, handlers, contextExtractors,
                   call, probe, caller, locks, threads>>

Tick ==
    /\ now < MaxTime
    /\ now' = now + 1
    /\ UNCHANGED <<defaultHandler, globalLevel, filterArrays, attrArrays, handlers,
                   contextExtractors, call, probe, caller, locks, threads>>

RegisterContextExtractor(key, extractor) ==
    /\ contextExtractors' = [contextExtractors EXCEPT ![key] = extractor]
    /\ UNCHANGED <<defaultHandler, now, globalLevel, filterArrays, attrArrays, handlers, call, probe, caller, locks, threads>>

UnregisterContextExtractor(key) ==
    /\ contextExtractors' = [contextExtractors EXCEPT ![key] = "nil"]
    /\ UNCHANGED <<defaultHandler, now, globalLevel, filterArrays, attrArrays, handlers, call, probe, caller, locks, threads>>

(* Actions: derivation *)

\* DoWithAttrs otherwise: h.preformattedAttrs = append(h.preformattedAttrs, attrs...)
DoWithAttrs_AppendsToOriginal(h, attrs) ==
    LET res == GoAppend(attrArrays, handlers[h].preformattedAttrs, attrs, ZeroAttr)
    IN  [heap |-> res.heap,
         original |-> [handlers[h] EXCEPT !.preformattedAttrs = res.slice],
         handler |-> [inner |-> handlers[h].inner \o attrs,
                      filters |-> handlers[h].filters,
                      lowestLevel |-> handlers[h].lowestLevel,
                      hasSourceFilters |-> handlers[h].hasSourceFilters,
                      preformattedAttrs |-> res.slice,
                      workDir |-> handlers[h].workDir,
                      parent |-> h, given |-> attrs]]

\* WithAttrs: the attribute heap after its append, the handler it was called
\* on as it leaves it, and the new Handler
DoWithAttrs(h, attrs) ==
    LET res == GoAppend(attrArrays, handlers[h].preformattedAttrs, attrs, ZeroAttr)
    IN  [heap |-> res.heap,
         original |-> handlers[h],
         handler |-> [inner |-> handlers[h].inner \o attrs,
                      filters |-> handlers[h].filters,
                      lowestLevel |-> handlers[h].lowestLevel,
                      hasSourceFilters |-> handlers[h].hasSourceFilters,
                      preformattedAttrs |-> res.slice,
                      workDir |-> handlers[h].workDir,
                      parent |-> h, given |-> attrs]]

WithAttrs(h, attrs, limit) ==
    /\ Len(handlers) < limit
    /\ LET res == DoWithAttrs(h, attrs)
       IN  /\ attrArrays' = res.heap
           /\ handlers' = Append([handlers EXCEPT ![h] = res.original], res.handler)
    /\ UNCHANGED <<defaultHandler, now, globalLevel, filterArrays, contextExtractors, call, probe, caller, locks, threads>>

GroupMark(name) == Attr(name, [Kind |-> "Group", Str |-> "", Num |-> 0])

WithGroup(h, name, limit) ==
    /\ Len(handlers) < limit
    /\ handlers' = Append(handlers,
            [handlers[h] EXCEPT !.inner = Append(@, GroupMark(name)),
                                !.parent = h, !.given = <<>>])
    /\ UNCHANGED <<defaultHandler, now, globalLevel, filterArrays, attrArrays, contextExtractors,
                   call, probe, caller, locks, threads>>

(* Actions: the logging goroutine *)

CallFree == call.pc \in {"idle", "done"}

\* Enabled, level at or above the global level: true without reading the cache
EnabledFastPath(h, level) ==
    /\ CallFree
    /\ level >= globalLevel
    /\ call' = [IdleCall EXCEPT !.pc = "done", !.op = "Enabled", !.h = h,
                                !.level = level, !.enabled = TRUE]
    /\ UNCHANGED <<defaultHandler, now, globalLevel, filterArrays, attrArrays, handlers,
                   contextExtractors, probe, caller, locks, threads>>

\* Enabled, level below the global level: the cache is read next
EnabledBelowGlobal(h, level) ==
    /\ CallFree
    /\ ~(level >= globalLevel)
    /\ call' = [IdleCall EXCEPT !.pc = "enabled", !.op = "Enabled", !.h = h,
                                !.level = level]
    /\ UNCHANGED <<defaultHandler, now, globalLevel, filterArrays, attrArrays, handlers,
                   contextExtractors, probe, caller, locks, threads>>

EnabledReadCache ==
    /\ call.pc = "enabled"
    /\ call' = [call EXCEPT !.pc = "done",
                            !.enabled = CacheAdmits(call.level, handlers[call.h].lowestLevel)]
    /\ UNCHANGED <<defaultHandler, now, globalLevel, filterArrays, attrArrays, handlers,
                   contextExtractors, probe, caller, locks, threads>>

\* Handle up to the release of the read lock: the global level, the pre-bound
\* attributes, the slice header of the rules and hasSourceFilters are read.
\* snapshot is history: the rules of the store at this instant.  The record
\* and the context are arguments nothing reads before the rule loop; they
\* are drawn where the model first needs them, in HandleSuppress/HandleEmit.
HandleSnapshot(h) ==
    /\ CallFree
    /\ call' = [IdleCall EXCEPT
                    !.pc = "evaluate", !.op = "Handle", !.h = h,
                    !.effectiveLevel = globalLevel,
                    !.attrs = Elems(attrArrays, handlers[h].preformattedAttrs),
                    !.filters = handlers[h].filters,
                    !.hasSourceFilters = handlers[h].hasSourceFilters,
                    !.snapshot = FiltersOf(filterArrays, handlers[h])]
    /\ UNCHANGED <<defaultHandler, now, globalLevel, filterArrays, attrArrays, handlers,
                   contextExtractors, probe, caller, locks, threads>>

\* what the rest of Handle decides, the rules read through the snapshot's header
Evaluation(ctx, r) ==
    Evaluate(handlers[call.h].workDir, call.effectiveLevel,
             FlattenAttrs(call.attrs, r.Attrs),
             Elems(filterArrays, call.filters), call.hasSourceFilters,
             contextExtractors, ctx, r)

\* HandleSuppress otherwise: the rules found expired are dropped from the store
HandleSuppress_DropsExpired(ctx, r) ==
    /\ call.pc = "evaluate"
    /\ LET e == Evaluation(ctx, r)
           live == SelectSeq(FiltersOf(filterArrays, handlers[call.h]),
                             LAMBDA f : ~IsExpired(f))
           res == MakeSlice(filterArrays, live, Len(live), ZeroFilter)
       IN  /\ ~e.emitted
           /\ Commit(res.heap, [handlers EXCEPT ![call.h].filters = res.slice],
                     [IdleCall EXCEPT !.pc = "done", !.op = "Handle", !.h = call.h,
                                      !.ctx = ctx, !.r = r, !.matched = e.matched,
                                      !.resolved = e.resolved])
    /\ UNCHANGED <<defaultHandler, now, globalLevel, attrArrays, contextExtractors, probe, caller, locks, threads>>

\* Handle returns nil without calling the inner handler
HandleSuppress(ctx, r) ==
    /\ call.pc = "evaluate"
    /\ LET e == Evaluation(ctx, r)
       IN  /\ ~e.emitted
           /\ Commit(filterArrays, handlers,
                     [IdleCall EXCEPT !.pc = "done", !.op = "Handle", !.h = call.h,
                                      !.ctx = ctx, !.r = r, !.matched = e.matched,
                                      !.resolved = e.resolved])
    /\ UNCHANGED <<defaultHandler, now, globalLevel, attrArrays, contextExtractors, probe, caller, locks, threads>>

\* HandleReturns otherwise: the error of the inner handler is dropped
HandleReturns_DropsError(invoked) == "nil"

\* what Handle returns: nil, or what h.inner.Handle returned.  invoked is
\* history: the calls of the inner handler this Handle call has made, each
\* with the context and the record it was given and what it returned
HandleReturns(invoked) ==
    IF invoked = <<>> THEN "nil" ELSE invoked[Len(invoked)].result

\* the record goes to the inner handler, whose result Handle returns
HandleEmit(ctx, r, ret) ==
    /\ call.pc = "evaluate"
    /\ LET e == Evaluation(ctx, r)
           invoked == <<[ctx |-> ctx, record |-> e.record, result |-> ret]>>
       IN  /\ e.emitted
           /\ Commit(filterArrays, handlers,
                     [IdleCall EXCEPT !.pc = "done", !.op = "Handle", !.h = call.h,
                                      !.ctx = ctx, !.r = r, !.matched = e.matched,
                                      !.resolved = e.resolved,
                                      !.emitted = TRUE, !.sent = e.record,
                                      !.inner = handlers[call.h].inner,
                                      !.invoked = invoked,
                                      !.ret = HandleReturns(invoked)])
    /\ UNCHANGED <<defaultHandler, now, globalLevel, attrArrays, contextExtractors, probe, caller, locks, threads>>

----------------------------------------------------------------------------
(* Spec: one handler made by NewHandler, administered while a goroutine logs *)
(* through it                                                                *)

Admin ==
    \/ \E filters \in SeqsUpTo(FilterPool, MaxSetLen) : SetFilters(1, filters)
    \/ \E filter \in FilterPool : AddFilter(1, filter)
    \/ \E p \in RemovePairs : RemoveFilter(1, p[1], p[2])
    \/ ClearFilters(1)
    \/ \E level \in GlobalLevels : SetLevel(level)
    \/ \E e \in ExtractorPool : RegisterContextExtractor("user", e)
    \/ UnregisterContextExtractor("user")

Derive(limit) ==
    \/ \E h \in 1..Len(handlers), attrs \in AttrLists : WithAttrs(h, attrs, limit)
    \/ \E h \in 1..Len(handlers) : WithGroup(h, "g", limit)

Logging ==
    \/ \E h \in 1..Len(handlers), level \in RecordLevels : EnabledFastPath(h, level)
    \/ \E h \in 1..Len(handlers), level \in RecordLevels : EnabledBelowGlobal(h, level)
    \/ EnabledReadCache
    \/ \E h \in 1..Len(handlers) : HandleSnapshot(h)
    \/ \E c \in LogCalls : HandleSuppress(c.ctx, c.r)
    \/ \E c \in LogCalls, ret \in InnerResults : HandleEmit(c.ctx, c.r, ret)

Next == Admin \/ Tick \/ Logging

Spec == Init /\ [][Next]_vars

----------------------------------------------------------------------------
(* SpecDerive: handlers derived from the root with WithAttrs and WithGroup, *)
(* the root's store administered before and after, logging through all     *)

AdminDerive ==
    \/ \E filters \in SeqsUpTo({DebugJobA}, MaxSetLen) : SetFilters(1, filters)
    \/ AddFilter(1, DebugRun)
    \/ RemoveFilter(1, "job", "a*")
    \/ ClearFilters(1)

NextDerive == AdminDerive \/ Derive(MaxHandlers) \/ Logging

SpecDerive == Init /\ [][NextDerive]_vars

(* SpecAttrs: chains of WithAttrs below a root whose rules are installed    *)
(* first, logging through all                                              *)

InstallRules ==
    /\ Len(handlers) = 1
    /\ SetFilters(1, <<DebugJobA>>)

NextAttrs ==
    \/ InstallRules
    \/ \E h \in 1..Len(handlers), attrs \in AttrLists : WithAttrs(h, attrs, MaxChain)
    \/ \E h \in 1..Len(handlers) : HandleSnapshot(h)
    \/ \E c \in LogCalls : HandleSuppress(c.ctx, c.r)
    \/ \E c \in LogCalls, ret \in InnerResults : HandleEmit(c.ctx, c.r, ret)

SpecAttrs == Init /\ [][NextAttrs]_vars

----------------------------------------------------------------------------
(* SpecRules: rules that differ in pattern, kind, enabled flag and expiry,   *)
(* installed between log calls while the clock runs and the registry changes *)

StarJob == [Type |-> "job", Pattern |-> "*", Level |-> "debug",
            OutputLevel |-> "", Enabled |-> TRUE, ExpiresAt |-> NilTime]
StarStarUser == [Type |-> "context:user", Pattern |-> "**", Level |-> "error",
                 OutputLevel |-> "", Enabled |-> TRUE, ExpiresAt |-> ZeroTime]
DisabledJob == [Type |-> "job", Pattern |-> "*", Level |-> "debug",
                OutputLevel |-> "", Enabled |-> FALSE, ExpiresAt |-> 2]
ExpiringJob == [Type |-> "job", Pattern |-> "*", Level |-> "error",
                OutputLevel |-> "", Enabled |-> TRUE, ExpiresAt |-> 1]
LaterJob == [Type |-> "job", Pattern |-> "*", Level |-> "warn",
             OutputLevel |-> "", Enabled |-> TRUE, ExpiresAt |-> 2]

RulePool == {StarJob, StarStarUser, DisabledJob, ExpiringJob, LaterJob}

RuleExtractors == {"userID", "userOrAnonymous"}

JobEmpty == Attr("job", StringValue(""))

RuleCalls ==
    {[ctx |-> WithUser("ab"), r |-> Record(LevelInfo, 0, <<JobEmpty>>)],
     [ctx |-> Background, r |-> Record(LevelDebug, 0, <<JobAB>>)],
     [ctx |-> NilCtx, r |-> Record(LevelInfo, 0, <<>>)],
     [ctx |-> WithUser("ab"), r |-> Record(LevelDebug, 1, <<>>)]}

AdminRules ==
    \/ /\ CallFree
       /\ \E filters \in SeqsUpTo(RulePool, MaxSetLen) : SetFilters(1, filters)
    \/ /\ CallFree
       /\ \E filter \in RulePool : AddFilter(1, filter)
    \/ \E e \in RuleExtractors : RegisterContextExtractor("user", e)
    \/ UnregisterContextExtractor("user")

NextRules ==
    \/ AdminRules
    \/ Tick
    \/ HandleSnapshot(1)
    \/ \E c \in RuleCalls : HandleSuppress(c.ctx, c.r)
    \/ \E c \in RuleCalls, ret \in InnerResults : HandleEmit(c.ctx, c.r, ret)

SpecRules == Init /\ [][NextRules]_vars

----------------------------------------------------------------------------
(* SpecStore: one goroutine administers the store of a handler made by New  *)
(* with initial filters, call after call, and writes into the slices it     *)
(* passed and got back                                                      *)

ErrorJobA == [Type |-> "job", Pattern |-> "a*", Level |-> "error",
              OutputLevel |-> "", Enabled |-> FALSE, ExpiresAt |-> 1]

\* lists given to WithFilters and SetFilters
StoreLists == {<<>>, <<DebugJobA>>, <<DebugRun, DebugJobA, StarJob, ErrorJobA>>}

\* a source rule that expires, and a rule whose type only begins like one
ExpiringRun == [Type |-> "source:function", Pattern |-> "*Run", Level |-> "debug",
                OutputLevel |-> "", Enabled |-> TRUE, ExpiresAt |-> 1]
SourceLine == [Type |-> "source:line", Pattern |-> "*", Level |-> "warn",
               OutputLevel |-> "", Enabled |-> TRUE, ExpiresAt |-> NilTime]

StoreRules == {DebugJobA, DebugRun, LaterJob, ExpiringRun, SourceLine}

StorePairs == {<<"job", "a*">>, <<"job", "*Run">>, <<"source:function", "*Run">>}

\* New(WithFilters(filters)): the handler is made and the filters are set
InitStore ==
    /\ now = 1
    /\ defaultHandler = 0
    /\ globalLevel = LevelInfo
    /\ \E filters \in StoreLists :
        LET res == IF Len(filters) > 0 THEN DoSetFilters(<<>>, NewHandler, filters)
                   ELSE [heap |-> <<>>, h |-> NewHandler]
        IN  /\ filterArrays = res.heap
            /\ handlers = <<res.h>>
    /\ attrArrays = <<>>
    /\ contextExtractors = EmptyRegistry
    /\ call = IdleCall
    /\ probe = IdleProbe
    /\ caller = IdleCaller
    /\ locks = FreeLocks
    /\ threads = IdleThreads

\* the call the goroutine makes next, as history
Called(op) ==
    [IdleCaller EXCEPT !.n = caller.n + 1, !.op = op,
                       !.slice = caller.slice, !.from = caller.from,
                       !.before = FiltersOf(filterArrays, handlers[1])]

\* the goroutine builds a slice of its own and calls SetFilters with it
CallSetFilters(filters) ==
    /\ caller.n < MaxStoreCalls
    /\ LET mine == MakeSlice(filterArrays, filters, Len(filters), ZeroFilter)
           res == DoSetFiltersFrom(mine.heap, handlers[1], mine.slice)
       IN  /\ filterArrays' = res.heap
           /\ handlers' = [handlers EXCEPT ![1] = res.h]
           /\ caller' = [Called("SetFilters") EXCEPT !.slice = mine.slice,
                                                     !.from = "SetFilters"]
    /\ UNCHANGED <<defaultHandler, now, globalLevel, attrArrays, contextExtractors, call, probe,
                   locks, threads>>

CallAddFilter(filter) ==
    /\ caller.n < MaxStoreCalls
    /\ LET res == DoAddFilter(filterArrays, handlers[1], filter)
       IN  /\ filterArrays' = res.heap
           /\ handlers' = [handlers EXCEPT ![1] = res.h]
    /\ caller' = [Called("AddFilter") EXCEPT !.filter = filter]
    /\ UNCHANGED <<defaultHandler, now, globalLevel, attrArrays, contextExtractors, call, probe,
                   locks, threads>>

CallRemoveFilter(filterType, pattern) ==
    /\ caller.n < MaxStoreCalls
    /\ LET res == DoRemoveFilter(filterArrays, handlers[1], filterType, pattern)
       IN  /\ filterArrays' = res.heap
           /\ handlers' = [handlers EXCEPT ![1] = res.h]
    /\ caller' = [Called("RemoveFilter") EXCEPT !.filterType = filterType,
                                                !.pattern = pattern]
    /\ UNCHANGED <<defaultHandler, now, globalLevel, attrArrays, contextExtractors, call, probe,
                   locks, threads>>

CallClearFilters ==
    /\ caller.n < MaxStoreCalls
    /\ LET res == DoClearFilters(filterArrays, handlers[1])
       IN  /\ filterArrays' = res.heap
           /\ handlers' = [handlers EXCEPT ![1] = res.h]
    /\ caller' = Called("ClearFilters")
    /\ UNCHANGED <<defaultHandler, now, globalLevel, attrArrays, contextExtractors, call, probe,
                   locks, threads>>

\* GetFilters: the goroutine keeps the slice it gets
CallGetFilters ==
    /\ caller.n < MaxStoreCalls
    /\ LET res == DoGetFilters(filterArrays, handlers[1])
       IN  /\ filterArrays' = res.heap
           /\ caller' = [Called("GetFilters") EXCEPT !.slice = res.slice,
                                                     !.from = "GetFilters"]
    /\ UNCHANGED <<defaultHandler, now, globalLevel, attrArrays, handlers, contextExtractors, call,
                   probe, locks, threads>>

\* the goroutine assigns to element i of the slice it holds
CallerOverwrites(i, filter) ==
    /\ caller.n < MaxStoreCalls
    /\ i \in 1..caller.slice.len
    /\ filterArrays' = [filterArrays EXCEPT ![caller.slice.arr][i] = filter]
    /\ caller' = Called("overwrite")
    /\ UNCHANGED <<defaultHandler, now, globalLevel, attrArrays, handlers, contextExtractors, call,
                   probe, locks, threads>>

NextStore ==
    \/ \E filters \in StoreLists : CallSetFilters(filters)
    \/ \E filter \in StoreRules : CallAddFilter(filter)
    \/ \E p \in StorePairs : CallRemoveFilter(p[1], p[2])
    \/ CallClearFilters
    \/ CallGetFilters
    \/ \E i \in 1..2 : CallerOverwrites(i, StarStarUser)
    \/ \E level \in GlobalLevels : SetLevel(level)
    \/ Tick

SpecStore == InitStore /\ [][NextStore]_vars

----------------------------------------------------------------------------
(* SpecRegistry: one goroutine registers, unregisters, clears and lists the  *)
(* extractors of the package while two handlers, each made by New with a     *)
(* context rule, evaluate records                                            *)

RegistryKeys == {"user", "req"}

\* what Register is called with: two functions and a nil function value
RegistryExtractors == {"userID", "userOrAnonymous", NilFunc}

\* two New(WithFilters(StarStarUser)) calls; the registry is the package's
InitRegistry ==
    /\ now = 1
    /\ defaultHandler = 0
    /\ globalLevel = LevelInfo
    /\ LET one == DoSetFilters(<<>>, NewHandler, <<StarStarUser>>)
           two == DoSetFilters(one.heap, NewHandler, <<StarStarUser>>)
       IN  /\ filterArrays = two.heap
           /\ handlers = <<one.h, two.h>>
    /\ attrArrays = <<>>
    /\ contextExtractors = [k \in RegistryKeys |-> "nil"]
    /\ call = IdleCall
    /\ probe = IdleProbe
    /\ caller = IdleCaller
    /\ locks = FreeLocks
    /\ threads = IdleThreads

\* the registry call the goroutine makes next, added to its history
CalledRegistry(op, key, extractor) ==
    [caller EXCEPT !.n = caller.n + 1, !.op = op, !.keys = <<>>,
                   !.log = Append(caller.log,
                                  [op |-> op, key |-> key, extractor |-> extractor])]

CallRegister(key, extractor) ==
    /\ caller.n < MaxRegistryCalls
    /\ contextExtractors' = DoRegister(contextExtractors, key, extractor)
    /\ caller' = CalledRegistry("Register", key, extractor)
    /\ UNCHANGED <<defaultHandler, now, globalLevel, filterArrays, attrArrays, handlers, call, probe,
                   locks, threads>>

CallUnregister(key) ==
    /\ caller.n < MaxRegistryCalls
    /\ contextExtractors' = DoUnregister(contextExtractors, key)
    /\ caller' = CalledRegistry("Unregister", key, "nil")
    /\ UNCHANGED <<defaultHandler, now, globalLevel, filterArrays, attrArrays, handlers, call, probe,
                   locks, threads>>

CallClear ==
    /\ caller.n < MaxRegistryCalls
    /\ contextExtractors' = DoClear(contextExtractors)
    /\ caller' = CalledRegistry("Clear", "", "nil")
    /\ UNCHANGED <<defaultHandler, now, globalLevel, filterArrays, attrArrays, handlers, call, probe,
                   locks, threads>>

\* ContextExtractorKeys: the goroutine keeps the slice it gets
CallKeys ==
    /\ caller.n < MaxRegistryCalls
    /\ \E keys \in ContextExtractorKeys(contextExtractors) :
        caller' = [CalledRegistry("Keys", "", "nil") EXCEPT !.keys = keys]
    /\ UNCHANGED <<defaultHandler, now, globalLevel, filterArrays, attrArrays, handlers,
                   contextExtractors, call, probe, locks, threads>>

NextRegistry ==
    \/ \E key \in RegistryKeys, extractor \in RegistryExtractors :
            CallRegister(key, extractor)
    \/ \E key \in RegistryKeys : CallUnregister(key)
    \/ CallClear
    \/ CallKeys

SpecRegistry == InitRegistry /\ [][NextRegistry]_vars

----------------------------------------------------------------------------
(* SpecLocks: goroutines call the operations of the package at once.  An    *)
(* operation is the sequence of its lock calls and of the calls it makes    *)
(* out of the package; what it reads and writes under the locks is left out *)

\* RLock of mutex m by goroutine t can return at once: no writer holds it
\* and none is blocked in Lock
CanRLock(m) == m.writer = 0 /\ m.pending = {}

\* Lock can return: nobody holds the mutex
CanLock(m) == m.writer = 0 /\ m.readers = {}

\* Unlock otherwise: the goroutines blocked in RLock are not let in
Unlocked_KeepsWaiting(m) == [m EXCEPT !.writer = 0]

\* Unlock: the goroutines blocked in RLock become readers before a next
\* writer gets the mutex
Unlocked(m) == [m EXCEPT !.writer = 0, !.readers = m.waiting, !.waiting = {}]

Step(do, on) == [do |-> do, on |-> on]

\* l.Lock() ... l.Unlock() and l.RLock() ... l.RUnlock()
Write(l) == <<Step("Lock", l), Step("Unlock", l)>>
Read(l) == <<Step("RLock", l), Step("RUnlock", l)>>

\* extractFromContext for one context rule: GetContextExtractor, then the
\* extractor is called with no lock held
Resolve == Read("contextExtractorsLock") \o <<Step("call", "extractor")>>

RECURSIVE Resolves(_)
Resolves(k) == IF k = 0 THEN <<>> ELSE Resolve \o Resolves(k - 1)

\* Handle: the snapshot under the read lock, the loop over the snapshot with
\* k context rules reached, and the inner handler called or not
HandlePlans ==
    {Read("filtersLock") \o Resolves(k) \o sink :
        k \in 0..MaxFilters, sink \in {<<>>, <<Step("call", "inner")>>}}

StoreWrites == {"SetFilters", "AddFilter", "RemoveFilter", "ClearFilters"}
LockFree == {"SetLevel", "GetLevel", "WithAttrs", "WithGroup"}
RegistryWrites ==
    {"RegisterContextExtractor", "UnregisterContextExtractor", "ClearContextExtractors"}
RegistryReads == {"GetContextExtractor", "ContextExtractorKeys"}

\* the methods of Handler and the functions of context.go
MethodPlans(op) ==
    CASE op \in StoreWrites -> {Write("filtersLock")}
      [] op = "GetFilters" -> {Read("filtersLock")}
      [] op = "Enabled" -> {<<>>, Read("filtersLock")}
      [] op = "Handle" -> HandlePlans
      [] op \in RegistryWrites -> {Write("contextExtractorsLock")}
      [] op \in RegistryReads -> {Read("contextExtractorsLock")}
      [] op \in LockFree -> {<<>>}

Methods ==
    StoreWrites \cup {"GetFilters", "Enabled", "Handle"} \cup RegistryWrites
        \cup RegistryReads \cup LockFree

\* PackagePlans otherwise: the method is called before the RUnlock
PackagePlans_UnderSlotLock(op) ==
    {Read("defaultHandlerLock")}
        \cup {<<Step("RLock", "defaultHandlerLock")>> \o plan
                    \o <<Step("RUnlock", "defaultHandlerLock")>> :
                plan \in MethodPlans(op)}

\* the package-level functions on the default handler: h := defaultHandler
\* under the read lock, then the method if h is not nil
PackagePlans(op) ==
    {Read("defaultHandlerLock")}
        \cup {Read("defaultHandlerLock") \o plan : plan \in MethodPlans(op)}

PackageFunctions == StoreWrites \cup {"GetFilters"}

\* every operation with the ways it can run
Operations ==
    UNION {{[op |-> op, plan |-> plan] : plan \in MethodPlans(op)} : op \in Methods}

PackageOperations ==
    UNION {{[op |-> "logfilter." \o op, plan |-> plan] : plan \in PackagePlans(op)} :
                op \in PackageFunctions}
        \cup {[op |-> "New", plan |-> Write("defaultHandlerLock")],
              [op |-> "New", plan |-> Write("filtersLock") \o Write("defaultHandlerLock")],
              [op |-> "GetHandler", plan |-> Read("defaultHandlerLock")]}

LocksUnchanged ==
    UNCHANGED <<defaultHandler, now, globalLevel, filterArrays, attrArrays, handlers,
                contextExtractors, call, probe, caller>>

Next1(t) == threads[t].left[1]
Advance(t) == [threads EXCEPT ![t].pc = "run", ![t].left = Tail(threads[t].left)]
Running(t, do) ==
    threads[t].pc = "run" /\ threads[t].left # <<>> /\ Next1(t).do = do

\* goroutine t enters an operation
Begin(t, o) ==
    /\ threads[t].pc = "idle"
    /\ threads' = [threads EXCEPT ![t] = [pc |-> "run", op |-> o.op, left |-> o.plan]]
    /\ UNCHANGED locks
    /\ LocksUnchanged

\* l.RLock(): returns, or blocks
RLock(t) ==
    /\ Running(t, "RLock")
    /\ LET l == Next1(t).on
       IN  IF CanRLock(locks[l])
           THEN /\ locks' = [locks EXCEPT ![l].readers = @ \cup {t}]
                /\ threads' = Advance(t)
           ELSE /\ locks' = [locks EXCEPT ![l].waiting = @ \cup {t}]
                /\ threads' = [threads EXCEPT ![t].pc = "blocked"]
    /\ LocksUnchanged

\* a blocked RLock returns once an Unlock has let the goroutine in
RLockReturns(t) ==
    /\ threads[t].pc = "blocked" /\ Next1(t).do = "RLock"
    /\ t \in locks[Next1(t).on].readers
    /\ threads' = Advance(t)
    /\ UNCHANGED locks
    /\ LocksUnchanged

RUnlock(t) ==
    /\ Running(t, "RUnlock")
    /\ locks' = [locks EXCEPT ![Next1(t).on].readers = @ \ {t}]
    /\ threads' = Advance(t)
    /\ LocksUnchanged

\* l.Lock(): returns, or blocks
Lock(t) ==
    /\ Running(t, "Lock")
    /\ LET l == Next1(t).on
       IN  IF CanLock(locks[l]) /\ locks[l].pending = {}
           THEN /\ locks' = [locks EXCEPT ![l].writer = t]
                /\ threads' = Advance(t)
           ELSE /\ locks' = [locks EXCEPT ![l].pending = @ \cup {t}]
                /\ threads' = [threads EXCEPT ![t].pc = "blocked"]
    /\ LocksUnchanged

\* a blocked Lock returns when nobody holds the mutex any more
LockReturns(t) ==
    /\ threads[t].pc = "blocked" /\ Next1(t).do = "Lock"
    /\ CanLock(locks[Next1(t).on])
    /\ locks' = [locks EXCEPT ![Next1(t).on].writer = t,
                              ![Next1(t).on].pending = @ \ {t}]
    /\ threads' = Advance(t)
    /\ LocksUnchanged

Unlock(t) ==
    /\ Running(t, "Unlock")
    /\ locks' = [locks EXCEPT ![Next1(t).on] = Unlocked(locks[Next1(t).on])]
    /\ threads' = Advance(t)
    /\ LocksUnchanged

\* the extractor or the inner handler is called and returns
CallOut(t) ==
    /\ Running(t, "call")
    /\ threads' = Advance(t)
    /\ UNCHANGED locks
    /\ LocksUnchanged

\* the operation returns
Return(t) ==
    /\ threads[t].pc = "run" /\ threads[t].left = <<>>
    /\ threads' = [threads EXCEPT ![t] = [pc |-> "idle", op |-> "", left |-> <<>>]]
    /\ UNCHANGED locks
    /\ LocksUnchanged

\* what goroutine t does once it is in an operation, but for a blocked Lock
Proceed(t) ==
    \/ RLock(t)
    \/ RLockReturns(t)
    \/ RUnlock(t)
    \/ Lock(t)
    \/ Unlock(t)
    \/ CallOut(t)
    \/ Return(t)

NextLocks ==
    \/ \E t \in Threads, o \in Operations \cup PackageOperations : Begin(t, o)
    \/ \E t \in Threads : Proceed(t)
    \/ \E t \in Threads : LockReturns(t)

SpecLocks == Init /\ [][NextLocks]_vars

\* Scheduling: a goroutine that can take its next step takes it, and a
\* goroutine blocked in Lock gets the mutex if it is free again and again
FairLocks ==
    /\ SpecLocks
    /\ \A t \in Threads : WF_vars(Proceed(t)) /\ SF_vars(LockReturns(t))

----------------------------------------------------------------------------
(* SpecLevel: the level of the package is set while handlers are derived    *)
(* from the handler of New and records are logged through all of them       *)

\* DoSetLevel otherwise: the level is only ever lowered
DoSetLevel_OnlyLowers(current, level) == IF level < current THEN level ELSE current

\* defaultLevel.Set(level)
DoSetLevel(current, level) == level

\* defaultLevel.Level()
GetLevel == globalLevel

\* SetLevel; the level given is kept as history
CallSetLevel(level) ==
    /\ globalLevel' = DoSetLevel(globalLevel, level)
    /\ caller' = [IdleCaller EXCEPT !.op = "SetLevel", !.level = level]
    /\ UNCHANGED <<defaultHandler, now, filterArrays, attrArrays, handlers, contextExtractors, call,
                   probe, locks, threads>>

NextLevel ==
    \/ InstallRules
    \/ \E level \in RecordLevels : CallSetLevel(level)
    \/ Derive(MaxHandlers)
    \/ Logging

SpecLevel == Init /\ [][NextLevel]_vars

----------------------------------------------------------------------------
(* SpecParse: a rule whose Level and OutputLevel are arbitrary strings is   *)
(* installed and records are logged through the handler                     *)

\* level strings a configuration may hold, by what they spell
DebugSpellings == {"debug", "DEBUG", "Debug", "dEbUg"}
InfoSpellings == {"info", "INFO", "Info", "iNFo"}
WarnSpellings == {"warn", "WARN", "Warn", "waRN"}
ErrorSpellings == {"error", "ERROR", "Error", "eRRor"}
WarningSpellings == {"warning", "WARNING", "Warning"}
PaddedSpellings == [Debug |-> {" debug", "DEBUG ", " Debug "}, Warn |-> {" warn", " warning", " WARNING "}, Error |-> {"error  "}]
OtherSpellings == {"", " ", "verbose", "trace", "err", "warn!", "de bug", "4", "INFO1"}

LevelStrings ==
    DebugSpellings \cup InfoSpellings \cup WarnSpellings \cup ErrorSpellings
        \cup WarningSpellings \cup PaddedSpellings.Debug \cup PaddedSpellings.Warn
        \cup PaddedSpellings.Error \cup OtherSpellings

OutputStrings == {"", "ERROR", " warning", "loud"}

LevelRule(level, out) ==
    [Type |-> "job", Pattern |-> "*", Level |-> level, OutputLevel |-> out,
     Enabled |-> TRUE, ExpiresAt |-> NilTime]

\* the configuration is loaded once
InstallLevelRule(level, out) ==
    /\ handlers[1].filters.len = 0
    /\ CallFree
    /\ SetFilters(1, <<LevelRule(level, out)>>)

NextParse ==
    \/ \E level \in LevelStrings, out \in OutputStrings : InstallLevelRule(level, out)
    \/ HandleSnapshot(1)
    \/ \E c \in LogCalls : HandleSuppress(c.ctx, c.r)
    \/ \E c \in LogCalls, ret \in InnerResults : HandleEmit(c.ctx, c.r, ret)

SpecParse == Init /\ [][NextParse]_vars

----------------------------------------------------------------------------
(* SpecShare: handlers are derived from the handler of New and the stores   *)
(* of the original and of the derived handlers are mutated in turn.         *)
(* caller.log is history: for each handler the rules its store was given by *)
(* its own mutations since it was made, and the cache computed from them at *)
(* the last one                                                             *)

ShareLists == {<<>>, <<DebugJobA, DebugRun>>}
ShareRules == {LaterJob, DebugRun}
SharePairs == {<<"source:function", "*Run">>}

\* what a handler holds after a mutation that leaves it the rules given
Held(rules) ==
    [rules |-> rules, lowestLevel |-> updateLowestLevel(rules).lowestLevel,
     hasSourceFilters |-> updateLowestLevel(rules).hasSourceFilters]

\* what handler h holds in the current state
Holds(fa, h) ==
    [rules |-> FiltersOf(fa, h), lowestLevel |-> h.lowestLevel,
     hasSourceFilters |-> h.hasSourceFilters]

InitShare ==
    /\ now = 1
    /\ defaultHandler = 0
    /\ globalLevel = LevelInfo
    /\ \E filters \in ShareLists :
        LET res == IF Len(filters) > 0 THEN DoSetFilters(<<>>, NewHandler, filters)
                   ELSE [heap |-> <<>>, h |-> NewHandler]
        IN  /\ filterArrays = res.heap
            /\ handlers = <<res.h>>
            /\ caller = [IdleCaller EXCEPT !.log = <<Held(filters)>>]
    /\ attrArrays = <<>>
    /\ contextExtractors = EmptyRegistry
    /\ call = IdleCall
    /\ probe = IdleProbe
    /\ locks = FreeLocks
    /\ threads = IdleThreads

\* a mutation of handler h's store with result res, which by the call made
\* leaves it the rules given
Mutated(h, op, res, rules) ==
    /\ caller.n < MaxShareCalls
    /\ Commit(res.heap, [handlers EXCEPT ![h] = res.h], call)
    /\ caller' = [caller EXCEPT !.n = @ + 1, !.op = op, !.log[h] = Held(rules)]
    /\ UNCHANGED <<defaultHandler, now, globalLevel, attrArrays, contextExtractors, probe, locks, threads>>

ShareSetFilters(h, filters) ==
    Mutated(h, "SetFilters", DoSetFilters(filterArrays, handlers[h], filters), filters)

ShareAddFilter(h, filter) ==
    Mutated(h, "AddFilter", DoAddFilter(filterArrays, handlers[h], filter), Append(caller.log[h].rules, filter))

ShareRemoveFilter(h, filterType, pattern) ==
    Mutated(h, "RemoveFilter", DoRemoveFilter(filterArrays, handlers[h], filterType, pattern), SelectSeq(caller.log[h].rules, LAMBDA f : ~(f.Type = filterType /\ f.Pattern = pattern)))

ShareClearFilters(h) ==
    Mutated(h, "ClearFilters", DoClearFilters(filterArrays, handlers[h]), <<>>)

\* WithAttrs and WithGroup: the new handler starts with what the one it is
\* derived from holds
ShareWithAttrs(h, attrs) ==
    /\ Len(handlers) < MaxHandlers
    /\ LET res == DoWithAttrs(h, attrs)
       IN  /\ attrArrays' = res.heap
           /\ handlers' = Append([handlers EXCEPT ![h] = res.original], res.handler)
    /\ caller' = [caller EXCEPT !.op = "WithAttrs",
                                !.log = Append(@, Holds(filterArrays, handlers[h]))]
    /\ UNCHANGED <<defaultHandler, now, globalLevel, filterArrays, contextExtractors, call, probe,
                   locks, threads>>

ShareWithGroup(h, name) ==
    /\ Len(handlers) < MaxHandlers
    /\ handlers' = Append(handlers,
            [handlers[h] EXCEPT !.inner = Append(@, GroupMark(name)),
                                !.parent = h, !.given = <<>>])
    /\ caller' = [caller EXCEPT !.op = "WithGroup",
                                !.log = Append(@, Holds(filterArrays, handlers[h]))]
    /\ UNCHANGED <<defaultHandler, now, globalLevel, filterArrays, attrArrays, contextExtractors,
                   call, probe, locks, threads>>

NextShare ==
    \/ \E h \in 1..Len(handlers), filters \in ShareLists : ShareSetFilters(h, filters)
    \/ \E h \in 1..Len(handlers), filter \in ShareRules : ShareAddFilter(h, filter)
    \/ \E h \in 1..Len(handlers), p \in SharePairs : ShareRemoveFilter(h, p[1], p[2])
    \/ \E h \in 1..Len(handlers) : ShareClearFilters(h)
    \/ \E h \in 1..Len(handlers) : ShareWithAttrs(h, <<JobAB>>)
    \/ \E h \in 1..Len(handlers) : ShareWithGroup(h, "g")

SpecShare == InitShare /\ [][NextShare]_vars

----------------------------------------------------------------------------
(* SpecRace: goroutine 1 mutates the store of the handler of New, one write *)
(* of the method after the other under the handler's write lock, while      *)
(* goroutine 2 derives a handler from it with WithAttrs or WithGroup, which *)
(* take no lock and read the three fields one after the other.  caller.log  *)
(* is history: what the handler held after New and after each mutation      *)

RaceLists == {<<LaterJob>>, <<DebugRun>>, <<DebugRun, LaterJob>>}
RaceRules == {DebugRun, DebugJobA}
RacePairs == {<<"source:function", "*Run">>}

InitRace ==
    /\ now = 1
    /\ defaultHandler = 0
    /\ globalLevel = LevelWarn
    /\ \E filters \in RaceLists :
        LET res == DoSetFilters(<<>>, NewHandler, filters)
        IN  /\ filterArrays = res.heap
            /\ handlers = <<res.h>>
            /\ caller = [IdleCaller EXCEPT !.log = <<Held(filters)>>]
    /\ attrArrays = <<>>
    /\ contextExtractors = EmptyRegistry
    /\ call = IdleCall
    /\ probe = IdleProbe
    /\ locks = FreeLocks
    /\ threads = IdleThreads

RaceUnchanged == UNCHANGED <<defaultHandler, now, globalLevel, contextExtractors, call, probe>>

\* the first write of SetFilters, AddFilter and RemoveFilter, made with the
\* write lock taken: h.filters = the slice in res; updateLowestLevel follows
WriteFilters(op, res) ==
    /\ threads[1].pc = "idle"
    /\ caller.n < MaxStoreCalls
    /\ locks' = [locks EXCEPT !.filtersLock.writer = 1]
    /\ filterArrays' = res.heap
    /\ handlers' = [handlers EXCEPT ![1].filters = res.h.filters]
    /\ threads' = [threads EXCEPT ![1] = [pc |-> "resetLevel", op |-> op, left |-> 1]]
    /\ caller' = [caller EXCEPT !.n = @ + 1, !.op = op,
                                !.log = Append(@, Held(FiltersOf(res.heap, res.h)))]
    /\ UNCHANGED attrArrays
    /\ RaceUnchanged

RaceSetFilters(filters) ==
    WriteFilters("SetFilters", DoSetFilters(filterArrays, handlers[1], filters))

RaceAddFilter(filter) ==
    WriteFilters("AddFilter", DoAddFilter(filterArrays, handlers[1], filter))

RaceRemoveFilter(filterType, pattern) ==
    WriteFilters("RemoveFilter", DoRemoveFilter(filterArrays, handlers[1], filterType, pattern))

\* ClearFilters: h.filters = nil; its two other writes are those that
\* updateLowestLevel begins with, and it ends after them
RaceClearFilters ==
    /\ threads[1].pc = "idle"
    /\ caller.n < MaxStoreCalls
    /\ locks' = [locks EXCEPT !.filtersLock.writer = 1]
    /\ handlers' = [handlers EXCEPT ![1].filters = NilSlice]
    /\ threads' = [threads EXCEPT ![1] = [pc |-> "resetLevel", op |-> "ClearFilters", left |-> 1]]
    /\ caller' = [caller EXCEPT !.n = @ + 1, !.op = "ClearFilters",
                                !.log = Append(@, Held(<<>>))]
    /\ UNCHANGED <<defaultHandler, filterArrays, attrArrays>>
    /\ RaceUnchanged

\* h.lowestLevel = slog.LevelError + 1
ResetLevel ==
    /\ threads[1].pc = "resetLevel"
    /\ handlers' = [handlers EXCEPT ![1].lowestLevel = LevelError + 1]
    /\ threads' = [threads EXCEPT ![1].pc = "resetSource"]
    /\ UNCHANGED <<defaultHandler, filterArrays, attrArrays, caller, locks>>
    /\ RaceUnchanged

\* h.hasSourceFilters = false
ResetSource ==
    /\ threads[1].pc = "resetSource"
    /\ handlers' = [handlers EXCEPT ![1].hasSourceFilters = FALSE]
    /\ threads' = [threads EXCEPT ![1].pc = "rule"]
    /\ UNCHANGED <<defaultHandler, filterArrays, attrArrays, caller, locks>>
    /\ RaceUnchanged

\* one turn of the loop of updateLowestLevel, on rule threads[1].left
CacheRule ==
    /\ threads[1].pc = "rule"
    /\ threads[1].left <= handlers[1].filters.len
    /\ LET f == FiltersOf(filterArrays, handlers[1])[threads[1].left]
           h == handlers[1]
       IN  handlers' = [handlers EXCEPT
                ![1].lowestLevel =
                    IF IsActive(f) /\ ParseLevel(f.Level) < h.lowestLevel
                    THEN ParseLevel(f.Level) ELSE h.lowestLevel,
                ![1].hasSourceFilters =
                    IF IsActive(f) /\ IsSourceFilter(f) THEN TRUE ELSE h.hasSourceFilters]
    /\ threads' = [threads EXCEPT ![1].left = @ + 1]
    /\ UNCHANGED <<defaultHandler, filterArrays, attrArrays, caller, locks>>
    /\ RaceUnchanged

\* the mutator returns and its deferred Unlock runs
MutatorReturns ==
    /\ threads[1].pc = "rule"
    /\ threads[1].left > handlers[1].filters.len \/ threads[1].op = "ClearFilters"
    /\ locks' = [locks EXCEPT !.filtersLock.writer = 0]
    /\ threads' = [threads EXCEPT ![1] = [pc |-> "idle", op |-> "", left |-> <<>>]]
    /\ UNCHANGED <<defaultHandler, filterArrays, attrArrays, handlers, caller>>
    /\ RaceUnchanged

\* WithAttrs or WithGroup reads h.filters
DeriveReadsFilters(op) ==
    /\ threads[2].pc = "idle"
    /\ Len(handlers) < MaxHandlers
    /\ threads' = [threads EXCEPT ![2] =
            [pc |-> "readLevel", op |-> op,
             left |-> [filters |-> handlers[1].filters, lowestLevel |-> 0,
                       hasSourceFilters |-> FALSE]]]
    /\ UNCHANGED <<defaultHandler, filterArrays, attrArrays, handlers, caller, locks>>
    /\ RaceUnchanged

\* then h.lowestLevel
DeriveReadsLevel ==
    /\ threads[2].pc = "readLevel"
    /\ threads' = [threads EXCEPT ![2].pc = "readSource",
                                  ![2].left.lowestLevel = handlers[1].lowestLevel]
    /\ UNCHANGED <<defaultHandler, filterArrays, attrArrays, handlers, caller, locks>>
    /\ RaceUnchanged

\* then h.hasSourceFilters, and the new handler is made of what was read
DeriveReturns ==
    /\ threads[2].pc = "readSource"
    /\ LET read == [threads[2].left EXCEPT !.hasSourceFilters = handlers[1].hasSourceFilters]
           res == DoWithAttrs(1, <<JobAB>>)
           made == IF threads[2].op = "WithAttrs" THEN res.handler
                   ELSE [handlers[1] EXCEPT !.inner = Append(@, GroupMark("g")),
                                            !.parent = 1, !.given = <<>>]
       IN  /\ attrArrays' = IF threads[2].op = "WithAttrs" THEN res.heap ELSE attrArrays
           /\ handlers' = Append(handlers,
                    [made EXCEPT !.filters = read.filters,
                                 !.lowestLevel = read.lowestLevel,
                                 !.hasSourceFilters = read.hasSourceFilters])
    /\ threads' = [threads EXCEPT ![2] = [pc |-> "idle", op |-> "", left |-> <<>>]]
    /\ UNCHANGED <<defaultHandler, filterArrays, caller, locks>>
    /\ RaceUnchanged

NextRace ==
    \/ \E filters \in RaceLists : RaceSetFilters(filters)
    \/ \E filter \in RaceRules : RaceAddFilter(filter)
    \/ \E p \in RacePairs : RaceRemoveFilter(p[1], p[2])
    \/ RaceClearFilters
    \/ ResetLevel
    \/ ResetSource
    \/ CacheRule
    \/ MutatorReturns
    \/ \E op \in {"WithAttrs", "WithGroup"} : DeriveReadsFilters(op)
    \/ DeriveReadsLevel
    \/ DeriveReturns

SpecRace == InitRace /\ [][NextRace]_vars

----------------------------------------------------------------------------
(* SpecReentrant: goroutine 1 logs through the handler of New, and the      *)
(* extractor or the inner handler that Handle calls may itself call the     *)
(* store or the registry before it returns; the other goroutines call them  *)
(* too.  The locks are those of SpecLocks, and what is written under them   *)
(* is written.                                                              *)

ReentrantLists == {<<ErrorUser>>, <<StarStarUser, DebugRun>>}
ReentrantRules == {DebugRun}
ReentrantPairs == {<<"context:user", "**">>}
ReentrantExtractors == {"userOrAnonymous"}

\* Handle otherwise: defer h.filtersLock.RUnlock()
HandleSteps_DeferredRUnlock ==
    {<<Step("RLock", "filtersLock"), Step("store", "snapshot")>>
            \o source \o Resolves(k) \o match \o sink \o <<Step("RUnlock", "filtersLock")>> :
        source \in {<<>>, <<Step("call", "extractSource")>>},
        k \in 0..MaxFilters,
        match \in {<<>>, <<Step("call", "Matches")>>},
        sink \in {<<>>, <<Step("call", "inner")>>}}

\* Handle: the snapshot under the read lock; then the call site resolved or
\* not, k context rules reached, a pattern matched or not, and the inner
\* handler called or not
HandleSteps ==
    {<<Step("RLock", "filtersLock"), Step("store", "snapshot"), Step("RUnlock", "filtersLock")>>
            \o source \o Resolves(k) \o match \o sink :
        source \in {<<>>, <<Step("call", "extractSource")>>},
        k \in 0..MaxFilters,
        match \in {<<>>, <<Step("call", "Matches")>>},
        sink \in {<<>>, <<Step("call", "inner")>>}}

LockOf(op) == IF op \in StoreWrites THEN "filtersLock" ELSE "contextExtractorsLock"

\* a method that writes: Lock, the write, and the deferred Unlock
WriteSteps(op) == <<Step("Lock", LockOf(op)), Step("store", op), Step("Unlock", LockOf(op))>>

Reentered == StoreWrites \cup {"RegisterContextExtractor", "UnregisterContextExtractor"}

InitReentrant ==
    /\ now = 1
    /\ defaultHandler = 0
    /\ globalLevel = LevelInfo
    /\ \E filters \in ReentrantLists :
        LET res == DoSetFilters(<<>>, NewHandler, filters)
        IN  /\ filterArrays = res.heap
            /\ handlers = <<res.h>>
    /\ attrArrays = <<>>
    /\ contextExtractors = DoRegister(EmptyRegistry, "user", "userID")
    /\ call = IdleCall
    /\ probe = IdleProbe
    /\ caller = IdleCaller
    /\ locks = FreeLocks
    /\ threads = IdleThreads

\* goroutine 1 enters Handle
BeginHandle(steps) ==
    /\ threads[1].pc = "idle"
    /\ threads' = [threads EXCEPT ![1] = [pc |-> "run", op |-> "Handle", left |-> steps]]
    /\ call' = IdleCall
    /\ UNCHANGED <<defaultHandler, now, globalLevel, filterArrays, attrArrays, handlers,
                   contextExtractors, probe, caller, locks>>

\* goroutine t enters a writing method
BeginWrite(t, op) ==
    /\ threads[t].pc = "idle"
    /\ caller.n < MaxStoreCalls
    /\ threads' = [threads EXCEPT ![t] = [pc |-> "run", op |-> op, left |-> WriteSteps(op)]]
    /\ caller' = [caller EXCEPT !.n = @ + 1]
    /\ UNCHANGED <<defaultHandler, now, globalLevel, filterArrays, attrArrays, handlers,
                   contextExtractors, call, probe, locks>>

\* the extractor or the inner handler that goroutine t is in calls a writing
\* method, and goes on when the method has returned
ReEnter(t, op) ==
    /\ Running(t, "call")
    /\ Next1(t).on \in {"extractor", "inner"}
    /\ caller.n < MaxStoreCalls
    /\ threads' = [threads EXCEPT ![t].left = WriteSteps(op) \o @]
    /\ caller' = [caller EXCEPT !.n = @ + 1]
    /\ UNCHANGED <<defaultHandler, now, globalLevel, filterArrays, attrArrays, handlers,
                   contextExtractors, call, probe, locks>>

\* Handle under the read lock: filters := h.filters, and hasSourceFilters
Snapshots(t) ==
    /\ Running(t, "store") /\ Next1(t).on = "snapshot"
    /\ call' = [IdleCall EXCEPT
                    !.pc = "evaluate", !.op = "Handle", !.h = 1,
                    !.effectiveLevel = globalLevel,
                    !.filters = handlers[1].filters,
                    !.hasSourceFilters = handlers[1].hasSourceFilters,
                    !.snapshot = FiltersOf(filterArrays, handlers[1])]
    /\ threads' = Advance(t)
    /\ UNCHANGED <<defaultHandler, now, globalLevel, filterArrays, attrArrays, handlers,
                   contextExtractors, probe, caller, locks>>

\* the stores a store method can leave, by what it is called with
Writes(op) ==
    CASE op = "SetFilters" ->
            {DoSetFilters(filterArrays, handlers[1], filters) : filters \in ReentrantLists}
      [] op = "AddFilter" ->
            {DoAddFilter(filterArrays, handlers[1], filter) : filter \in ReentrantRules}
      [] op = "RemoveFilter" ->
            {DoRemoveFilter(filterArrays, handlers[1], p[1], p[2]) : p \in ReentrantPairs}
      [] op = "ClearFilters" -> {DoClearFilters(filterArrays, handlers[1])}

\* what a store method writes under the write lock
StoreWritten(t) ==
    /\ Running(t, "store") /\ Next1(t).on \in StoreWrites
    /\ \E res \in Writes(Next1(t).on) :
        /\ filterArrays' = res.heap
        /\ handlers' = <<res.h>>
    /\ threads' = Advance(t)
    /\ UNCHANGED <<defaultHandler, now, globalLevel, attrArrays, contextExtractors, call, probe,
                   caller, locks>>

\* what a registry function writes under the write lock
RegistryWritten(t) ==
    /\ Running(t, "store") /\ Next1(t).on \in Reentered \ StoreWrites
    /\ \E extractor \in ReentrantExtractors :
        contextExtractors' =
            IF Next1(t).on = "RegisterContextExtractor"
            THEN DoRegister(contextExtractors, "user", extractor)
            ELSE DoUnregister(contextExtractors, "user")
    /\ threads' = Advance(t)
    /\ UNCHANGED <<defaultHandler, now, globalLevel, filterArrays, attrArrays, handlers, call, probe,
                   caller, locks>>

\* what goroutine t does next, but for a blocked Lock
ProceedReentrant(t) ==
    \/ Proceed(t)
    \/ Snapshots(t)
    \/ StoreWritten(t)
    \/ RegistryWritten(t)

NextReentrant ==
    \/ \E steps \in HandleSteps : BeginHandle(steps)
    \/ \E t \in Threads, op \in Reentered : BeginWrite(t, op)
    \/ \E t \in Threads, op \in Reentered : ReEnter(t, op)
    \/ \E t \in Threads : ProceedReentrant(t)
    \/ \E t \in Threads : LockReturns(t)

SpecReentrant == InitReentrant /\ [][NextReentrant]_vars

----------------------------------------------------------------------------
(* SpecFrame: rules that expire are installed, the clock runs, an extractor *)
(* is registered, handlers are derived, and records are logged through all  *)

FrameLists == {<<ExpiringJob>>, <<ErrorUser, DebugJobA>>}

NextFrame ==
    \/ \E filters \in FrameLists : Len(handlers) = 1 /\ SetFilters(1, filters)
    \/ RegisterContextExtractor("user", "userID")
    \/ Tick
    \/ Derive(MaxHandlers)
    \/ Logging

SpecFrame == Init /\ [][NextFrame]_vars

----------------------------------------------------------------------------
(* SpecKind: one rule that matches every value, its Type any string, is     *)
(* installed and records are logged through the handler                     *)

KindTypes ==
    {"source:file", "source:function", "source:other", "source:files", "source:",
     "Source:file", "context:user", "context:", "context:source:file", "context",
     "", "job"}

TypedRule(type) ==
    [Type |-> type, Pattern |-> "*", Level |-> "debug", OutputLevel |-> "",
     Enabled |-> TRUE, ExpiresAt |-> NilTime]

\* a record that has an attribute for every type that is no context type
KindAttrs ==
    <<Attr("source:file", StringValue("f")), Attr("source:other", StringValue("o")),
      Attr("source:files", StringValue("s")), Attr("context", StringValue("c")),
      Attr("Source:file", StringValue("S")), Attr("context:user", StringValue("u")),
      JobAB>>

KindCalls ==
    {[ctx |-> WithUser("ab"), r |-> Record(LevelDebug, 1, KindAttrs)],
     [ctx |-> WithUser("ab"), r |-> Record(LevelDebug, 0, <<>>)],
     [ctx |-> Background, r |-> Record(LevelDebug, 2, <<JobAB>>)]}

InstallTyped(type) ==
    /\ CallFree
    /\ SetFilters(1, <<TypedRule(type)>>)

NextKind ==
    \/ \E type \in KindTypes : InstallTyped(type)
    \/ RegisterContextExtractor("user", "userID")
    \/ HandleSnapshot(1)
    \/ \E c \in KindCalls : HandleSuppress(c.ctx, c.r)
    \/ \E c \in KindCalls, ret \in InnerResults : HandleEmit(c.ctx, c.r, ret)

SpecKind == Init /\ [][NextKind]_vars

----------------------------------------------------------------------------
(* SpecSource: source rules that match every value are installed in front   *)
(* of an attribute rule, and records with and without a call site are       *)
(* logged through the handler                                               *)

FileAny == TypedRule("source:file")
FunctionAny == TypedRule("source:function")

SourceLists ==
    {<<FileAny, LaterJob>>, <<FunctionAny, LaterJob>>, <<FileAny, FunctionAny>>,
     <<LaterJob, FunctionAny>>}

\* records with no call site, with a frame that has both a file and a
\* function, and with frames that lack one of the two
SourceCalls ==
    {[ctx |-> Background, r |-> Record(level, pc, <<JobAB>>)] :
        level \in {LevelDebug, LevelWarn}, pc \in 0..4}

InstallSourceRules(filters) ==
    /\ CallFree
    /\ SetFilters(1, filters)

NextSource ==
    \/ \E filters \in SourceLists : InstallSourceRules(filters)
    \/ HandleSnapshot(1)
    \/ \E c \in SourceCalls : HandleSuppress(c.ctx, c.r)
    \/ \E c \in SourceCalls, ret \in InnerResults : HandleEmit(c.ctx, c.r, ret)

SpecSource == Init /\ [][NextSource]_vars

----------------------------------------------------------------------------
(* SpecDefault: the default handler slot of the package.  One goroutine     *)
(* calls New, step by step; another calls the package-level filter          *)
(* functions, each reading the slot and then acting on the handler it found; *)
(* a third logs through the loggers New has returned.                        *)

\* the options given to New: WithLevel or not, WithFilters or not
OptionLists ==
    {[withLevel |-> l # LevelInfo, level |-> l, filters |-> fs] :
        l \in {LevelDebug, LevelInfo, LevelWarn},
        fs \in {<<>>, <<DebugJobA>>}}

DefaultRules == {DebugJobA, ErrorUser}
DefaultLists == {<<>>, <<ErrorUser>>}
DefaultPairs == {<<"job", "a*">>}
DefaultCalls ==
    {[ctx |-> Background, r |-> Record(LevelDebug, 0, <<JobAB>>)],
     [ctx |-> Background, r |-> Record(LevelInfo, 1, <<>>)]}

\* Options otherwise: the level is Warn unless WithLevel is given
Options_DefaultWarn(opts) ==
    [level |-> IF opts.withLevel THEN opts.level ELSE LevelWarn,
     filters |-> opts.filters]

\* New: o := &options{level: slog.LevelInfo, ...} with every opt applied
Options(opts) ==
    [level |-> IF opts.withLevel THEN opts.level ELSE LevelInfo,
     filters |-> opts.filters]

\* NewSteps otherwise: the handler is put in the slot before its filters are set
NewSteps_PublishFirst == <<"Set", "NewHandler", "publish", "SetFilters">>

\* New, in the order of its code: defaultLevel.Set(o.level), NewHandler,
\* handler.SetFilters(o.filters) when there are any, defaultHandler = handler
NewSteps == <<"Set", "NewHandler", "SetFilters", "publish">>

\* the goroutine calling New before its first call.  given, set and made are
\* history: the options New was last called with, the options of the New
\* calls that have set the level and the handlers of the New calls that
\* have returned, both in order.
NewIdle ==
    [pc |-> "idle", op |-> "New", left |-> <<>>, o |-> [level |-> LevelInfo, filters |-> <<>>],
     h |-> 0, given |-> [withLevel |-> FALSE, level |-> LevelInfo, filters |-> <<>>],
     set |-> <<>>, made |-> <<>>]

InitDefault ==
    /\ now = 1
    /\ defaultHandler = 0
    /\ globalLevel = LevelInfo
    /\ filterArrays = <<>>
    /\ attrArrays = <<>>
    /\ handlers = <<>>
    /\ contextExtractors = EmptyRegistry
    /\ call = IdleCall
    /\ probe = IdleProbe
    /\ caller = IdleCaller
    /\ locks = FreeLocks
    /\ threads = [IdleThreads EXCEPT ![1] = NewIdle]

NewCalled(opts) ==
    /\ threads[1].pc = "idle"
    /\ Len(handlers) < MaxNewCalls
    /\ threads' = [threads EXCEPT ![1] = [@ EXCEPT !.pc = "running", !.left = NewSteps,
                                                   !.o = Options(opts), !.h = 0,
                                                   !.given = opts]]
    /\ UNCHANGED <<defaultHandler, now, globalLevel, filterArrays, attrArrays, handlers,
                   contextExtractors, call, probe, caller, locks>>

\* the next step of New; New returns after its last one
NewProceeds ==
    /\ threads[1].pc = "running"
    /\ LET t == threads[1]
           step == Head(t.left)
           h == IF step = "NewHandler" THEN Len(handlers) + 1 ELSE t.h
           res == IF step = "SetFilters" /\ Len(t.o.filters) > 0
                  THEN DoSetFilters(filterArrays, handlers[t.h], t.o.filters)
                  ELSE [heap |-> filterArrays, h |-> NewHandler]
           last == Len(t.left) = 1
       IN  /\ globalLevel' = IF step = "Set" THEN DoSetLevel(globalLevel, t.o.level)
                             ELSE globalLevel
           /\ Commit(res.heap,
                     IF step = "NewHandler" THEN Append(handlers, NewHandler)
                     ELSE IF step = "SetFilters" /\ Len(t.o.filters) > 0
                     THEN [handlers EXCEPT ![t.h] = res.h]
                     ELSE handlers,
                     call)
           /\ defaultHandler' = IF step = "publish" THEN t.h ELSE defaultHandler
           /\ threads' = [threads EXCEPT ![1] =
                            [t EXCEPT !.pc = IF last THEN "idle" ELSE "running",
                                      !.left = Tail(t.left),
                                      !.h = h,
                                      !.set = IF step = "Set" THEN Append(@, t.given) ELSE @,
                                      !.made = IF last THEN Append(@, h) ELSE @]]
    /\ UNCHANGED <<now, attrArrays, contextExtractors, probe, caller, locks>>


\* a package-level filter function up to RUnlock: h := defaultHandler
PackageCalled(op) ==
    /\ caller.pc \in {"idle", "returned"}
    /\ caller.n < MaxPackageCalls
    /\ caller' = [IdleCaller EXCEPT !.n = caller.n + 1, !.op = op, !.pc = "slot read",
                                    !.target = defaultHandler]
    /\ UNCHANGED <<defaultHandler, now, globalLevel, filterArrays, attrArrays, handlers,
                   contextExtractors, call, probe, locks, threads>>

\* h == nil: nothing is done, GetFilters returns nil
PackageFindsNil ==
    /\ caller.pc = "slot read"
    /\ caller.target = 0
    /\ caller' = [caller EXCEPT !.pc = "returned",
                                !.returned = IF caller.op = "GetFilters" THEN "nil" ELSE "none"]
    /\ UNCHANGED <<defaultHandler, now, globalLevel, filterArrays, attrArrays, handlers,
                   contextExtractors, call, probe, locks, threads>>

\* h != nil: the method of the same name on h, with the arguments given
PackageActs(filters, filter, pair) ==
    /\ caller.pc = "slot read"
    /\ caller.target # 0
    /\ LET h == handlers[caller.target]
           res == CASE caller.op = "SetFilters" -> DoSetFilters(filterArrays, h, filters)
                    [] caller.op = "AddFilter" -> DoAddFilter(filterArrays, h, filter)
                    [] caller.op = "RemoveFilter" ->
                            DoRemoveFilter(filterArrays, h, pair[1], pair[2])
                    [] caller.op = "ClearFilters" -> DoClearFilters(filterArrays, h)
                    [] OTHER -> [heap |-> filterArrays, h |-> h]
       IN  /\ caller.op = "AddFilter" => h.filters.len < MaxFilters
           /\ Commit(res.heap, [handlers EXCEPT ![caller.target] = res.h], call)
           /\ caller' = [caller EXCEPT
                            !.pc = "returned",
                            !.before = FiltersOf(filterArrays, h),
                            !.slice = IF caller.op = "SetFilters" THEN
                                        [arr |-> 0, len |-> Len(filters), cap |-> Len(filters)]
                                      ELSE @,
                            !.filter = IF caller.op = "AddFilter" THEN filter ELSE @,
                            !.filterType = IF caller.op = "RemoveFilter" THEN pair[1] ELSE @,
                            !.pattern = IF caller.op = "RemoveFilter" THEN pair[2] ELSE @,
                            !.returned = IF caller.op = "GetFilters" THEN "slice" ELSE "none",
                            !.got = IF caller.op = "GetFilters" THEN Got(filterArrays, h)
                                    ELSE IF caller.op = "SetFilters" THEN filters ELSE @]
    /\ UNCHANGED <<defaultHandler, now, globalLevel, attrArrays, contextExtractors, probe,
                   locks, threads>>

\* the loggers New has returned
Returned == {threads[1].made[i] : i \in 1..Len(threads[1].made)}

NextDefault ==
    \/ \E opts \in OptionLists : NewCalled(opts)
    \/ NewProceeds
    \/ \E op \in PackageFunctions : PackageCalled(op)
    \/ PackageFindsNil
    \/ \E filters \in DefaultLists, filter \in DefaultRules, pair \in DefaultPairs :
            PackageActs(filters, filter, pair)
    \/ \E h \in Returned : HandleSnapshot(h)
    \/ \E c \in DefaultCalls : HandleSuppress(c.ctx, c.r)
    \/ \E c \in DefaultCalls, ret \in InnerResults : HandleEmit(c.ctx, c.r, ret)

SpecDefault == InitDefault /\ [][NextDefault]_vars

----------------------------------------------------------------------------
(* SpecPath: formatSourcePath and the function part of extractSource, on    *)
(* working directories, file paths and function names as the runtime gives  *)
(* them: clean paths, absolute or (built with -trimpath) relative           *)

WorkDirs == {"/w", "/", ""}

FilePaths ==
    {"/w/a.go", "/w/p/q/a.go", "/w/..p/a.go", "/w/..a.go", "/w/p/..a.go", "/w/.a.go",
     "/wx/a.go", "/go/b.go", "/go/..b.go", "/a.go", "x.io/m/p/a.go"}

FunctionNames ==
    {"github.com/pkg/service.(*Service).Method", "x.io/m/p.(*S).Run", "x.io/q.Do",
     "main.main", "main.(*T).Do", "x.io/m/p",
     "a.b/c", "nodot", ""}

InitPath ==
    /\ now = 1
    /\ defaultHandler = 0
    /\ globalLevel = LevelInfo
    /\ filterArrays = <<>>
    /\ attrArrays = <<>>
    /\ handlers = <<NewHandler>>
    /\ contextExtractors = EmptyRegistry
    /\ call = IdleCall
    /\ probe \in {[pc |-> "input", workDir |-> w, filePath |-> f, functionName |-> fn,
                   file |-> "", function |-> ""] :
                    w \in WorkDirs, f \in FilePaths, fn \in FunctionNames}
    /\ caller = IdleCaller
    /\ locks = FreeLocks
    /\ threads = IdleThreads

\* h.formatSourcePath(frame.File, frame.Function) on a handler with that
\* working directory, and the function name extractSource makes
PathCall ==
    /\ probe.pc = "input"
    /\ probe' = [probe EXCEPT
                    !.pc = "done",
                    !.file = formatSourcePath(probe.workDir, probe.filePath,
                                              probe.functionName),
                    !.function = FunctionName(probe.functionName)]
    /\ UNCHANGED <<defaultHandler, now, globalLevel, filterArrays, attrArrays, handlers,
                   contextExtractors, call, caller, locks, threads>>

NextPath == PathCall

SpecPath == InitPath /\ [][NextPath]_vars

----------------------------------------------------------------------------
(* SpecMatch: matchPattern called directly on every pattern and value *)

Alphabet == {"a", "A", "*"}

RECURSIVE Strings(_)
Strings(n) ==
    IF n = 0 THEN {""}
    ELSE LET shorter == Strings(n - 1)
         IN  shorter \cup {x \o c : x \in shorter, c \in Alphabet}

InitMatch ==
    /\ now = 1
    /\ defaultHandler = 0
    /\ globalLevel = LevelInfo
    /\ filterArrays = <<>>
    /\ attrArrays = <<>>
    /\ handlers = <<NewHandler>>
    /\ contextExtractors = EmptyRegistry
    /\ call = IdleCall
    /\ probe \in {[pc |-> "input", pattern |-> p, value |-> v, result |-> FALSE] :
                    p \in Strings(MaxPatternLen), v \in Strings(MaxPatternLen)}
    /\ caller = IdleCaller
    /\ locks = FreeLocks
    /\ threads = IdleThreads

MatchCall ==
    /\ probe.pc = "input"
    /\ probe' = [probe EXCEPT !.pc = "done",
                              !.result = matchPattern(probe.pattern, probe.value)]
    /\ UNCHANGED <<defaultHandler, now, globalLevel, filterArrays, attrArrays, handlers,
                   contextExtractors, call, caller, locks, threads>>

NextMatch == MatchCall

SpecMatch == InitMatch /\ [][NextMatch]_vars

----------------------------------------------------------------------------
(* What the claims say of strings, stated without the code's helpers *)

StartsWith(v, x) == \E n \in 0..Len(v) : SubSeq(v, 1, n) = x
EndsWith(v, x) == \E n \in 0..Len(v) : SubSeq(v, Len(v) - n + 1, Len(v)) = x
HasSubstring(v, x) == \E i \in 1..(Len(v) + 1), j \in 0..Len(v) : SubSeq(v, i, j) = x

FirstChar(p) == IF p = "" THEN "" ELSE SubSeq(p, 1, 1)
LastChar(p) == IF p = "" THEN "" ELSE SubSeq(p, Len(p), Len(p))
DropFirst(p) == SubSeq(p, 2, Len(p))
DropLast(p) == SubSeq(p, 1, Len(p) - 1)

\* C9: the result of matchPattern(p, v) follows the case table: false for an
\* empty p; else equality when p has no star at either end; "v starts with p
\* minus its final star" for a trailing star only; "v ends with p minus its
\* first star" for a leading star only; "v contains the middle" for a star at
\* both ends and a non-empty middle.  Characters compare exactly (case
\* included) and a star elsewhere in p is an ordinary character.
C9_CaseTable ==
    probe.pc = "done" =>
        LET p == probe.pattern
            v == probe.value
        IN  IF p = "" THEN probe.result = FALSE
            ELSE CASE FirstChar(p) # "*" /\ LastChar(p) # "*" ->
                        probe.result = (v = p)
                   [] FirstChar(p) # "*" /\ LastChar(p) = "*" ->
                        probe.result = StartsWith(v, DropLast(p))
                   [] FirstChar(p) = "*" /\ LastChar(p) # "*" ->
                        probe.result = EndsWith(v, DropFirst(p))
                   [] FirstChar(p) = "*" /\ LastChar(p) = "*" ->
                        LET middle == DropLast(DropFirst(p))
                        IN  middle # "" => probe.result = HasSubstring(v, middle)

C9_Witness ==
    /\ probe.pc = "done"
    /\ probe.pattern = "*a*"
    /\ probe.value = "Aa*"
    /\ probe.result = TRUE

\* C10 as stated: for every X and v, match(X*, v) = v starts with X,
\* match(*X, v) = v ends with X and match(*X*, v) = v contains X.
C10_LawsForEveryX ==
    probe.pc = "done" =>
        LET p == probe.pattern
            v == probe.value
        IN  /\ (p # "" /\ LastChar(p) = "*") =>
                    probe.result = StartsWith(v, DropLast(p))
            /\ (p # "" /\ FirstChar(p) = "*") =>
                    probe.result = EndsWith(v, DropFirst(p))
            /\ (Len(p) >= 2 /\ FirstChar(p) = "*" /\ LastChar(p) = "*") =>
                    probe.result = HasSubstring(v, DropLast(DropFirst(p)))

\* C10 amended: match(X*, v) = v starts with X for every X that does not begin
\* with a star; match(*X, v) = v ends with X for every X that does not end
\* with a star; match(*X*, v) = v contains X for every X.
C10_Laws ==
    probe.pc = "done" =>
        LET p == probe.pattern
            v == probe.value
        IN  /\ (p # "" /\ LastChar(p) = "*" /\ FirstChar(DropLast(p)) # "*") =>
                    probe.result = StartsWith(v, DropLast(p))
            /\ (p # "" /\ FirstChar(p) = "*" /\ LastChar(DropFirst(p)) # "*") =>
                    probe.result = EndsWith(v, DropFirst(p))
            /\ (Len(p) >= 2 /\ FirstChar(p) = "*" /\ LastChar(p) = "*") =>
                    probe.result = HasSubstring(v, DropLast(DropFirst(p)))

C10_Witness ==
    /\ probe.pc = "done"
    /\ probe.pattern = "*aA"
    /\ probe.value = "aaA"
    /\ probe.result = TRUE

----------------------------------------------------------------------------
(* Claims about Handle and Enabled, under Spec *)

\* the step in which a Handle call in flight ends
HandleEnds == call.pc = "evaluate" /\ call'.pc = "done"

\* what that call iterates over and matches against, read before the step
RulesRead == Elems(filterArrays, call.filters)
SourceRead(r) ==
    IF call.hasSourceFilters /\ r.PC # 0
    THEN extractSource(handlers[call.h].workDir, r.PC) ELSE NoSource

\* rule f is active, has a candidate value for (ctx, r) and its pattern
\* matches that value
RuleWins(f, ctx, r) ==
    /\ f.Enabled
    /\ f.ExpiresAt \in {NilTime, ZeroTime} \/ now <= f.ExpiresAt
    /\ LET attrs == FlattenAttrs(call.attrs, r.Attrs)
       IN  CASE f.Type = "source:file" ->
                    /\ SourceRead(r).file # ""
                    /\ matchPattern(f.Pattern, SourceRead(r).file)
             [] f.Type = "source:function" ->
                    /\ SourceRead(r).function # ""
                    /\ matchPattern(f.Pattern, SourceRead(r).function)
             [] StartsWith(f.Type, "context:") ->
                    /\ ~ctx.isNil
                    /\ contextExtractors[SubSeq(f.Type, 9, Len(f.Type))] # "nil"
                    /\ LET x == RunExtractor(
                                    contextExtractors[SubSeq(f.Type, 9, Len(f.Type))], ctx)
                       IN  x.found /\ matchPattern(f.Pattern, x.value)
             [] OTHER ->
                    /\ f.Type \in DOMAIN attrs
                    /\ matchPattern(f.Pattern, attrs[f.Type])

\* the first rule in list order that wins, 0 if none does
FirstWinner(rules, ctx, r) ==
    LET wins == {i \in 1..Len(rules) : RuleWins(rules[i], ctx, r)}
    IN  IF wins = {} THEN 0 ELSE Min(wins)

\* C1: when a Handle call ends, its winner is the first rule in list order
\* that is active, has a candidate value and matches it; the record is emitted
\* iff its severity is at least that rule's threshold, be it below or above
\* the global level; and the outcome is the one the list cut after the winner
\* gives, so no later rule has a part in it.
C1_FirstMatchWins ==
    [][HandleEnds =>
        LET ctx == call'.ctx
            r == call'.r
            w == FirstWinner(RulesRead, ctx, r)
            cut == Evaluate(handlers[call.h].workDir, call.effectiveLevel,
                            FlattenAttrs(call.attrs, r.Attrs), SubSeq(RulesRead, 1, w),
                            call.hasSourceFilters, contextExtractors, ctx, r)
        IN  /\ call'.matched = w
            /\ w # 0 =>
                /\ call'.emitted = (r.Level >= ParseLevel(RulesRead[w].Level))
                /\ call'.emitted = cut.emitted
                /\ call'.emitted => call'.sent = cut.record]_vars

\* a Debug record emitted under global Info by the first of two matching rules
C1_Witness ==
    /\ call.pc = "done" /\ call.op = "Handle"
    /\ call.matched = 1 /\ call.emitted
    /\ call.r.Level = LevelDebug /\ call.ctx = WithUser("ab")
    /\ globalLevel = LevelInfo /\ now = 1
    /\ contextExtractors["user"] = "userID"
    /\ FiltersOf(filterArrays, handlers[1]) = <<DebugJobA, ErrorUser>>

\* C2: a record is forwarded iff its severity is at least the effective
\* threshold: the winning rule's parsed level when a rule wins, else the global
\* level this Handle call read.
C2_EmitDecision ==
    [][HandleEnds =>
        LET threshold == IF call'.matched # 0
                         THEN ParseLevel(RulesRead[call'.matched].Level)
                         ELSE call.effectiveLevel
        IN  call'.emitted = (call'.r.Level >= threshold)]_vars

\* suppression: a record the global level would let through, dropped by a rule
C2_Witness ==
    /\ call.pc = "done" /\ call.op = "Handle"
    /\ call.matched # 0 /\ ~call.emitted
    /\ call.r.Level >= globalLevel

\* C3: the rules a Handle call in flight reads through its snapshot are the
\* rules the store held at the instant of the snapshot, whatever SetFilters,
\* AddFilter, RemoveFilter and ClearFilters did to the handler since.
C3_SnapshotAtomic ==
    call.pc = "evaluate" => Elems(filterArrays, call.filters) = call.snapshot

\* a call in flight whose snapshot shares its backing array with the store,
\* which AddFilter has grown in place since
C3_Witness ==
    /\ call.pc = "evaluate"
    /\ call.filters.arr = handlers[call.h].filters.arr
    /\ call.filters.len >= 1
    /\ call.filters.len < handlers[call.h].filters.len

\* every record of a level the application may log: the log calls, at that level
RecordsAt(level) == {[c EXCEPT !.r.Level = level] : c \in LogCalls}

\* C4: whenever Enabled(level) is false on a handler, Handle on that handler
\* in that state suppresses every record of that level.
C4_FastRejectSound ==
    \A h \in 1..Len(handlers), level \in RecordLevels :
        ~EnabledNow(h, level) =>
            \A c \in RecordsAt(level) : ~HandleNow(h, c.ctx, c.r).emitted

\* Enabled has answered false while the store holds a rule that has expired
\* since the cache was computed
C4_Witness ==
    /\ call.pc = "done" /\ call.op = "Enabled" /\ ~call.enabled
    /\ ~EnabledNow(call.h, call.level)
    /\ \E i \in 1..handlers[call.h].filters.len :
            IsExpired(FiltersOf(filterArrays, handlers[call.h])[i])
    /\ handlers[call.h].lowestLevel <= LevelError

\* C8: an emitted record reaches the inner handler with the winner's parsed
\* output level as its severity and everything else as in the original when
\* the winner has an output level, and unmodified otherwise; whether it is
\* emitted is decided on its original severity.
C8_OutputOverride ==
    [][HandleEnds =>
        LET r == call'.r
            m == call'.matched
            threshold == IF m # 0 THEN ParseLevel(RulesRead[m].Level)
                         ELSE call.effectiveLevel
        IN  /\ call'.emitted = (r.Level >= threshold)
            /\ call'.emitted =>
                IF m # 0 /\ RulesRead[m].OutputLevel # ""
                THEN /\ call'.sent.Level = ParseLevel(RulesRead[m].OutputLevel)
                     /\ call'.sent.Message = r.Message
                     /\ call'.sent.Time = r.Time
                     /\ call'.sent.PC = r.PC
                     /\ call'.sent.Attrs = r.Attrs
                ELSE call'.sent = r]_vars

\* a Debug record that reached the inner handler as Warn
C8_Witness ==
    /\ call.pc = "done" /\ call.op = "Handle" /\ call.emitted
    /\ call.r.Level = LevelDebug
    /\ call.sent.Level = LevelWarn
    /\ call.sent.Attrs = call.r.Attrs /\ Len(call.r.Attrs) > 0

----------------------------------------------------------------------------
(* Claims about derived handlers, under SpecDerive and SpecAttrs *)

Derived == {d \in 1..Len(handlers) : handlers[d].parent # 0}

\* C5: a derived handler is governed by the store of the handler it was
\* derived from: at every instant it reads the same rule list, and Enabled
\* answers on it as on the original for every level.
C5_SharedStore ==
    \A d \in Derived :
        /\ FiltersOf(filterArrays, handlers[d])
                = FiltersOf(filterArrays, handlers[handlers[d].parent])
        /\ \A level \in RecordLevels :
                EnabledNow(d, level) = EnabledNow(handlers[d].parent, level)

\* the attributes a handler flattens in front of a record's own
PreboundOf(heap, h) == Elems(heap, h.preformattedAttrs)

\* C6: the pre-bound attributes of a derived handler are, at every instant,
\* those of the handler it was derived from followed by the ones given at
\* its derivation, whatever has been derived since.
C6_ChildAttrs ==
    \A c \in Derived :
        PreboundOf(attrArrays, handlers[c])
            = PreboundOf(attrArrays, handlers[handlers[c].parent]) \o handlers[c].given

\* the step in which a handler is derived, and the handler it is derived from
Derives == Len(handlers') = Len(handlers) + 1
Original == handlers'[Len(handlers')].parent

----------------------------------------------------------------------------
(* Claims about single rules, under SpecRules *)

\* rule f is enabled and its expiry, if it has one, is not behind the clock
LiveRule(f) ==
    f.Enabled /\ (f.ExpiresAt \in {NilTime, ZeroTime} \/ now <= f.ExpiresAt)

\* an attribute or context rule for which (ctx, r) has a value
ValueFound(f, ctx, r) ==
    IF StartsWith(f.Type, "context:")
    THEN /\ ~ctx.isNil
         /\ contextExtractors[SubSeq(f.Type, 9, Len(f.Type))] # "nil"
         /\ RunExtractor(contextExtractors[SubSeq(f.Type, 9, Len(f.Type))], ctx).found
    ELSE /\ f.Type \notin {"source:file", "source:function"}
         /\ f.Type \in DOMAIN FlattenAttrs(call.attrs, call'.r.Attrs)

\* C11: "*" and "**" match every value, the empty one too; so when a Handle
\* call ends and its list holds an active attribute or context rule with such
\* a pattern whose value is found, that rule or one before it has won.
C11_StarMatchesAll ==
    [][/\ \A v \in Strings(MaxPatternLen) : matchPattern("*", v) /\ matchPattern("**", v)
       /\ HandleEnds =>
            \A i \in 1..Len(RulesRead) :
                (/\ RulesRead[i].Pattern \in {"*", "**"}
                 /\ LiveRule(RulesRead[i])
                 /\ ValueFound(RulesRead[i], call'.ctx, call'.r))
                    => call'.matched \in 1..i]_vars

\* the rule with pattern "*" has won on an attribute whose value is empty
C11_Witness ==
    /\ call.pc = "done" /\ call.op = "Handle" /\ call.matched = 1 /\ call.emitted
    /\ call.r.Attrs = <<JobEmpty>>
    /\ FiltersOf(filterArrays, handlers[1]) = <<StarJob>>

\* C12: a rule is active iff it is enabled and has no expiry, or the zero
\* time as expiry, or an expiry the clock has not passed (at the instant of
\* expiry it is still active); a disabled rule is never active; and the
\* winner of a Handle call is always an active rule.
C12_Activity ==
    [][/\ \A f \in RulePool :
            /\ IsActive(f) = LiveRule(f)
            /\ ~f.Enabled => ~IsActive(f)
       /\ HandleEnds =>
            (call'.matched # 0 => LiveRule(RulesRead[call'.matched]))]_vars

\* a rule has won at the very instant of its expiry, behind a disabled rule
\* with the same pattern
C12_Witness ==
    /\ call.pc = "done" /\ call.op = "Handle" /\ call.matched = 2
    /\ now = ExpiringJob.ExpiresAt
    /\ FiltersOf(filterArrays, handlers[1]) = <<DisabledJob, ExpiringJob>>

\* the clock has passed the expiry of rule f
Passed(f) == f.ExpiresAt \notin {NilTime, ZeroTime} /\ now > f.ExpiresAt

\* the rules the clock has not passed, taken as rules without expiry
Unexpiring(rules) ==
    LET present == SelectSeq(rules, LAMBDA f : ~Passed(f))
    IN  [i \in 1..Len(present) |-> [present[i] EXCEPT !.ExpiresAt = NilTime]]

\* C13: a Handle call decides as if, at the time it runs, the rules whose
\* expiry the clock has passed were not in the list and the others had no
\* expiry: same decision, same record sent, same rule as winner.
C13_ExpiryAtHandle ==
    [][HandleEnds =>
        LET r == call'.r
            e == Evaluate(handlers[call.h].workDir, call.effectiveLevel,
                          FlattenAttrs(call.attrs, r.Attrs), Unexpiring(RulesRead),
                          call.hasSourceFilters, contextExtractors, call'.ctx, r)
        IN  /\ call'.emitted = e.emitted
            /\ call'.emitted => call'.sent = e.record
            /\ (call'.matched = 0) = (e.matched = 0)
            /\ call'.matched # 0 =>
                    [RulesRead[call'.matched] EXCEPT !.ExpiresAt = NilTime]
                        = Unexpiring(RulesRead)[e.matched]]_vars

\* the clock has passed the expiry of the first rule, which is still in the
\* store, and the second rule has won
C13_Witness ==
    /\ call.pc = "done" /\ call.op = "Handle" /\ call.matched = 2 /\ call.emitted
    /\ now > ExpiringJob.ExpiresAt
    /\ FiltersOf(filterArrays, handlers[1]) = <<ExpiringJob, StarJob>>

\* what the context gives for the key of context rule f: nothing when the
\* context is nil or the key has no extractor, else what its extractor returns
Resolved(f, ctx) ==
    LET key == SubSeq(f.Type, 9, Len(f.Type))
    IN  IF ctx.isNil \/ contextExtractors[key] = "nil"
        THEN [value |-> "", found |-> FALSE]
        ELSE RunExtractor(contextExtractors[key], ctx)

Without(rules, i) == SubSeq(rules, 1, i - 1) \o SubSeq(rules, i + 1, Len(rules))

\* C18: when a Handle call ends, an active context rule whose value is not
\* found (nil context, no extractor for its key, or an extractor reporting
\* not-found, whatever value comes with that) has not won, and the call has
\* decided as if the rule were not in the list, returning nil when it
\* suppresses; a context rule whose value is found, and before which no rule
\* has won, has won iff its pattern matches that value.
C18_ContextResolution ==
    [][HandleEnds =>
        \A i \in 1..Len(RulesRead) :
            (StartsWith(RulesRead[i].Type, "context:") /\ LiveRule(RulesRead[i])) =>
                LET r == call'.r
                    x == Resolved(RulesRead[i], call'.ctx)
                    e == Evaluate(handlers[call.h].workDir, call.effectiveLevel,
                                  FlattenAttrs(call.attrs, r.Attrs), Without(RulesRead, i),
                                  call.hasSourceFilters, contextExtractors, call'.ctx, r)
                IN  IF ~x.found
                    THEN /\ call'.matched # i
                         /\ call'.emitted = e.emitted
                         /\ call'.emitted => call'.sent = e.record
                         /\ ~call'.emitted => call'.ret = "nil"
                    ELSE call'.matched \notin 1..(i - 1) =>
                            (call'.matched = i)
                                = matchPattern(RulesRead[i].Pattern, x.value)]_vars

\* the extractor has reported not-found with a value the rule's pattern
\* matches, and the rule after the context rule has won
C18_Witness ==
    /\ call.pc = "done" /\ call.op = "Handle" /\ call.matched = 2
    /\ call.ctx = Background
    /\ contextExtractors["user"] = "userOrAnonymous"
    /\ matchPattern(StarStarUser.Pattern, RunExtractor("userOrAnonymous", Background).value)
    /\ FiltersOf(filterArrays, handlers[1]) = <<StarStarUser, StarJob>>

----------------------------------------------------------------------------
(* Claims about the filter store, under SpecStore *)

\* the step in which the goroutine's call op returns
Returns(op) == caller'.n = caller.n + 1 /\ caller'.op = op

\* C14: RemoveFilter(type, pattern) leaves in the store, in their order, the
\* rules whose Type or Pattern differs from the pair, and nothing else; a pair
\* that no rule equals leaves what GetFilters returns as it was.
C14_RemoveExact ==
    [][Returns("RemoveFilter") =>
        LET before == Got(filterArrays, handlers[1])
            after == Got(filterArrays', handlers'[1])
            equal(f) == f.Type = caller'.filterType /\ f.Pattern = caller'.pattern
        IN  /\ after = SelectSeq(before, LAMBDA f : ~equal(f))
            /\ (\A i \in 1..Len(before) : ~equal(before[i])) => after = before]_vars

\* two rules with the pair, of different level, enabled flag and expiry, have
\* gone and the two others are left in their order
C14_Witness ==
    /\ caller.op = "RemoveFilter"
    /\ caller.filterType = "job" /\ caller.pattern = "a*"
    /\ caller.before = <<DebugRun, DebugJobA, StarJob, ErrorJobA>>
    /\ Got(filterArrays, handlers[1]) = <<DebugRun, StarJob>>

\* the rules of list rules, by index, that are active at now and whose
\* candidate value for (ctx, r) is found and matches
Hits(rules, ctx, r) ==
    LET h == handlers[1]
        attrs == FlattenAttrs(Elems(attrArrays, h.preformattedAttrs), r.Attrs)
        src == IF h.hasSourceFilters /\ r.PC # 0
               THEN extractSource(h.workDir, r.PC) ELSE NoSource
    IN  {i \in 1..Len(rules) :
            /\ IsActive(rules[i])
            /\ Candidate(rules[i], attrs, contextExtractors, ctx, src).found
            /\ Matches(rules[i],
                       Candidate(rules[i], attrs, contextExtractors, ctx, src).value)}

\* C15: when SetFilters(L) returns, GetFilters gives exactly L; when
\* AddFilter(r) returns, GetFilters gives the list of before followed by r;
\* and in every state of the store, whatever calls led to it, a Handle call
\* is won by the hit of lowest index in the list GetFilters gives.
C15_StoreOrder ==
    /\ [][/\ Returns("SetFilters") =>
                Got(filterArrays', handlers'[1]) = Elems(filterArrays', caller'.slice)
          /\ Returns("AddFilter") =>
                Got(filterArrays', handlers'[1])
                    = Append(Got(filterArrays, handlers[1]), caller'.filter)]_vars
    /\ [](\A c \in LogCalls :
            LET hits == Hits(Got(filterArrays, handlers[1]), c.ctx, c.r)
            IN  HandleNow(1, c.ctx, c.r).matched = IF hits = {} THEN 0 ELSE Min(hits))

\* a rule added behind four others is the last of five, and a record that the
\* second, third and fifth rule match is won by the second
C15_Witness ==
    /\ caller.op = "AddFilter" /\ caller.filter = DebugJobA
    /\ caller.before = <<DebugRun, DebugJobA, StarJob, ErrorJobA>>
    /\ Got(filterArrays, handlers[1])
            = <<DebugRun, DebugJobA, StarJob, ErrorJobA, DebugJobA>>
    /\ Hits(Got(filterArrays, handlers[1]), Background, Record(LevelInfo, 0, <<JobAB>>))
            = {2, 3, 5}
    /\ HandleNow(1, Background, Record(LevelInfo, 0, <<JobAB>>)).matched = 2

\* C16: when the goroutine overwrites an element of the slice it got from
\* GetFilters or passed to SetFilters, the stored rules, the two cached fields,
\* what GetFilters returns and what every Handle and Enabled call decides stay
\* as they were.
C16_DefensiveCopies ==
    [][Returns("overwrite") /\ caller.from \in {"GetFilters", "SetFilters"} =>
        /\ FiltersOf(filterArrays', handlers'[1]) = FiltersOf(filterArrays, handlers[1])
        /\ Got(filterArrays', handlers'[1]) = Got(filterArrays, handlers[1])
        /\ handlers'[1].lowestLevel = handlers[1].lowestLevel
        /\ handlers'[1].hasSourceFilters = handlers[1].hasSourceFilters
        /\ \A c \in LogCalls :
                HandleOn(handlers'[1], globalLevel', filterArrays', attrArrays',
                         contextExtractors', c.ctx, c.r) = HandleNow(1, c.ctx, c.r)
        /\ \A level \in RecordLevels :
                (level >= globalLevel' \/ level >= handlers'[1].lowestLevel)
                    = EnabledNow(1, level)]_vars

\* the first element of the slice GetFilters returned has been overwritten
\* and the first rule of the store is still the one it was
C16_Witness ==
    /\ caller.op = "overwrite" /\ caller.from = "GetFilters"
    /\ Elems(filterArrays, caller.slice)[1] = StarStarUser
    /\ caller.before = <<DebugJobA>>
    /\ FiltersOf(filterArrays, handlers[1]) = <<DebugJobA>>

\* C17: while ClearFilters is the last call made to the store, GetFilters is
\* empty, lowestLevel is LevelError + 1, hasSourceFilters is false, Enabled
\* is (level >= global level) for every level from Debug to Error, and Handle
\* emits a record iff its severity is at least the global level, and then
\* emits it as it came.
C17_ClearRestoresGlobal ==
    caller.op = "ClearFilters" =>
        /\ Got(filterArrays, handlers[1]) = <<>>
        /\ handlers[1].lowestLevel = LevelError + 1
        /\ handlers[1].hasSourceFilters = FALSE
        /\ \A level \in RecordLevels : EnabledNow(1, level) = (level >= globalLevel)
        /\ \A c \in LogCalls :
            /\ HandleNow(1, c.ctx, c.r).matched = 0
            /\ HandleNow(1, c.ctx, c.r).emitted = (c.r.Level >= globalLevel)
            /\ HandleNow(1, c.ctx, c.r).record = c.r

\* a store of four rules, a source rule and Debug rules among them, has been
\* cleared and the global level raised to Warn: Info is no longer enabled
C17_Witness ==
    /\ caller.op = "ClearFilters"
    /\ caller.before = <<DebugRun, DebugJobA, StarJob, ErrorJobA>>
    /\ globalLevel = LevelWarn
    /\ ~EnabledNow(1, LevelInfo) /\ EnabledNow(1, LevelWarn)
    /\ ~HandleNow(1, Background, Record(LevelInfo, 0, <<JobAB>>)).emitted

----------------------------------------------------------------------------
(* Claims about the extractor registry, under SpecRegistry *)

\* the last call of history log that sets or removes key's entry, 0 if none
LastTouch(log, key) ==
    LET touches == {i \in 1..Len(log) :
                        \/ log[i].op = "Clear"
                        \/ log[i].op \in {"Register", "Unregister"} /\ log[i].key = key}
    IN  IF touches = {} THEN 0 ELSE CHOOSE i \in touches : \A j \in touches : j <= i

\* a Register(key, .) of the history has been followed neither by
\* Unregister(key) nor by a clear
InEffect(log, key) ==
    LastTouch(log, key) # 0 /\ log[LastTouch(log, key)].op = "Register"

\* the function that Register gave, nil for a nil function value
Given(extractor) == IF extractor = NilFunc THEN "nil" ELSE extractor

\* C19: after any sequence of registry calls GetContextExtractor(key) is
\* what the most recent Register(key, .) gave if neither Unregister(key) nor
\* a clear has followed it, and nil otherwise; ContextExtractorKeys returns
\* each key with a registration in effect once and no other key; Unregister
\* of a key without registration leaves the registry as it was; and both
\* handlers resolve a context rule through that one registry.
C19_Registry ==
    /\ [](\A key \in RegistryKeys :
            GetContextExtractor(contextExtractors, key)
                = IF InEffect(caller.log, key)
                  THEN Given(caller.log[LastTouch(caller.log, key)].extractor)
                  ELSE "nil")
    /\ [](caller.op = "Keys" =>
            /\ {caller.keys[i] : i \in DOMAIN caller.keys}
                    = {key \in RegistryKeys : InEffect(caller.log, key)}
            /\ \A i, j \in DOMAIN caller.keys : caller.keys[i] = caller.keys[j] => i = j)
    /\ [][Returns("Unregister") /\ ~InEffect(caller.log, caller'.log[Len(caller'.log)].key)
            => contextExtractors' = contextExtractors]_vars
    /\ [](\A h \in 1..Len(handlers) :
            LET x == GetContextExtractor(contextExtractors, "user")
                r == Record(LevelError, 0, <<>>)
            IN  (HandleNow(h, WithUser("ab"), r).matched = 1)
                    = (x # "nil" /\ RunExtractor(x, WithUser("ab")).found))

\* "user" was registered twice and the keys were listed: "user" is listed
\* once, its second extractor is the one returned, "req" has none, and both
\* handlers find the user through it
C19_Witness ==
    /\ Len(caller.log) = 3
    /\ caller.log[1] = [op |-> "Register", key |-> "user", extractor |-> "userOrAnonymous"]
    /\ caller.log[2] = [op |-> "Register", key |-> "user", extractor |-> "userID"]
    /\ caller.log[3].op = "Keys" /\ caller.keys = <<"user">>
    /\ GetContextExtractor(contextExtractors, "user") = "userID"
    /\ GetContextExtractor(contextExtractors, "req") = "nil"
    /\ \A h \in {1, 2} :
            HandleNow(h, WithUser("ab"), Record(LevelError, 0, <<>>)).matched = 1

----------------------------------------------------------------------------
(* Claims about the locks, under FairLocks *)

\* goroutine t is blocked in Lock or RLock and cannot return from it
Stuck(t) ==
    /\ threads[t].pc = "blocked"
    /\ \/ Next1(t).do = "RLock" /\ t \notin locks[Next1(t).on].readers
       \/ Next1(t).do = "Lock" /\ ~CanLock(locks[Next1(t).on])

\* C20: in no reachable state is every goroutine blocked on a lock, and with
\* fair scheduling every operation a goroutine has entered returns.
C20_NoDeadlockAndCompletion ==
    /\ [](\E t \in Threads : ~Stuck(t))
    /\ \A t \in Threads : (threads[t].pc # "idle") ~> (threads[t].pc = "idle")

\* one goroutine is blocked in Lock on the filter lock that the other one,
\* in Handle, holds for reading
C20_Witness ==
    /\ Stuck(1)
    /\ threads[1].op = "SetFilters" /\ Next1(1).do = "Lock"
    /\ threads[2].op = "Handle" /\ 2 \in locks["filtersLock"].readers

----------------------------------------------------------------------------
(* Claims about the dynamic level, under SpecLevel *)

\* the level the latest SetLevel gave, the level of a fresh LevelVar before
LatestLevel == IF caller.op = "SetLevel" THEN caller.level ELSE LevelInfo

\* C21: GetLevel is the level of the latest SetLevel; an Enabled or Handle
\* call that starts on any handler, derived ones included, reads that level;
\* and SetLevel rebuilds no handler.
C21_SharedLevel ==
    /\ [](GetLevel = LatestLevel)
    /\ [][/\ (CallFree /\ call'.op = "Enabled" /\ call' # call) =>
                (call'.pc = "done" /\ call'.enabled) = (call'.level >= LatestLevel)
          /\ (CallFree /\ call'.pc = "evaluate") => call'.effectiveLevel = LatestLevel
          /\ (HandleEnds /\ call'.matched = 0) =>
                call'.emitted = (call'.r.Level >= call.effectiveLevel)
          /\ caller' # caller => handlers' = handlers /\ filterArrays' = filterArrays]_vars

\* the level was raised to Error after a handler was derived, and a Warn
\* record logged through the derived handler afterwards is suppressed
C21_Witness ==
    /\ caller.op = "SetLevel" /\ caller.level = LevelError
    /\ call.pc = "done" /\ call.op = "Handle" /\ call.h = 2
    /\ handlers[2].parent = 1
    /\ call.r.Level = LevelWarn /\ ~call.emitted /\ call.matched = 0

----------------------------------------------------------------------------
(* Claims about level strings, under SpecParse *)

\* the severity a level string stands for when only the four names count,
\* in any letter case, and everything else is Info
FourNames(s) ==
    CASE s \in DebugSpellings -> LevelDebug
      [] s \in WarnSpellings -> LevelWarn
      [] s \in ErrorSpellings -> LevelError
      [] OTHER -> LevelInfo

\* the same with "warning" standing for Warn and white space around a name
\* left out of account
NamesTrimmed(s) ==
    CASE s \in DebugSpellings \cup PaddedSpellings.Debug -> LevelDebug
      [] s \in WarnSpellings \cup WarningSpellings \cup PaddedSpellings.Warn -> LevelWarn
      [] s \in ErrorSpellings \cup PaddedSpellings.Error -> LevelError
      [] OTHER -> LevelInfo

\* the rule the handler holds, once installed
Installed == FiltersOf(filterArrays, handlers[1])[1]

\* the threshold of the installed rule is level(its Level) in the cache and
\* in evaluation, and a record it wins and transforms leaves with
\* level(its OutputLevel)
LevelsFollow(level(_)) ==
    /\ (\A s \in LevelStrings : ParseLevel(s) = level(s))
    /\ (handlers[1].filters.len = 1 =>
            handlers[1].lowestLevel = level(Installed.Level))
    /\ (call.pc = "done" /\ call.op = "Handle" /\ call.matched = 1 =>
            /\ call.emitted = (call.r.Level >= level(Installed.Level))
            /\ (call.emitted /\ Installed.OutputLevel # "") =>
                    call.sent.Level = level(Installed.OutputLevel))

\* C22 as stated: ParseLevel gives the severity of "debug", "info", "warn"
\* and "error" in any letter case and Info for every other string, and that
\* mapping is the one used for the cache, in evaluation and for the output level.
C22_FourNamesElseInfo == LevelsFollow(FourNames)

\* C22 amended: as stated, but "warning" in any letter case is Warn as well
\* and white space around a name is not counted; every other string is Info.
C22_ParseLevelTotal == LevelsFollow(NamesTrimmed)

\* a rule with Level "WARN" and OutputLevel "ERROR" suppressed nothing of a
\* Warn record and sent it on as Error
C22_Witness ==
    /\ handlers[1].filters.len = 1
    /\ Installed.Level = "WARN" /\ Installed.OutputLevel = "ERROR"
    /\ handlers[1].lowestLevel = LevelWarn
    /\ call.pc = "done" /\ call.op = "Handle" /\ call.matched = 1
    /\ call.r.Level = LevelWarn /\ call.emitted /\ call.sent.Level = LevelError

----------------------------------------------------------------------------
(* Claims about Enabled and the cache, under Spec *)

\* an Enabled call starts
EnabledStarts == CallFree /\ call'.op = "Enabled" /\ call' # call

\* an Enabled call that went on to the cache returns
EnabledReturns == call.pc = "enabled" /\ call'.pc = "done"

\* C23: Enabled(level) is false iff level is below the global level and below
\* the cached lowestLevel; a level at or above the global level is answered
\* with true at once, before the cache is read; and with the cache at
\* LevelError + 1 the answer is (level >= global level) for every level up to
\* Error.
C23_FastRejectDefinition ==
    /\ [](\A level \in RecordLevels :
            /\ EnabledNow(1, level)
                    = ~(level < globalLevel /\ level < handlers[1].lowestLevel)
            /\ handlers[1].lowestLevel = LevelError + 1 =>
                    EnabledNow(1, level) = (level >= globalLevel))
    /\ [][/\ EnabledStarts =>
                IF call'.level >= globalLevel
                THEN call'.pc = "done" /\ call'.enabled
                ELSE call'.pc = "enabled"
          /\ EnabledReturns =>
                call'.enabled = ~(call.level < handlers[call.h].lowestLevel)]_vars

\* Info is rejected under global Warn with a cache at Error, the level of the
\* only rule
C23_Witness ==
    /\ call.pc = "done" /\ call.op = "Enabled" /\ ~call.enabled
    /\ call.level = LevelInfo /\ globalLevel = LevelWarn
    /\ handlers[1].lowestLevel = LevelError
    /\ FiltersOf(filterArrays, handlers[1]) = <<ErrorUser>>

----------------------------------------------------------------------------
(* Claims about the cache of the store, under SpecStore *)

\* the indices of the rules of a list that are enabled and not expired now
ActiveNow(rules) == {i \in 1..Len(rules) : LiveRule(rules[i])}

\* C24: when SetFilters, AddFilter, RemoveFilter or ClearFilters returns, the
\* cached lowestLevel is the least parsed level of the rules of the new list
\* that are active at that moment, LevelError + 1 if there is none, and
\* hasSourceFilters is true iff one of those rules has type "source:file" or
\* "source:function"; disabled and expired rules count for neither.
C24_CacheAfterMutation ==
    [][(\E op \in {"SetFilters", "AddFilter", "RemoveFilter", "ClearFilters"} : Returns(op)) =>
        LET rules == Got(filterArrays', handlers'[1])
            active == ActiveNow(rules)
        IN  /\ handlers'[1].lowestLevel =
                    IF active = {} THEN LevelError + 1
                    ELSE Min({ParseLevel(rules[i].Level) : i \in active})
            /\ handlers'[1].hasSourceFilters =
                    \E i \in active : rules[i].Type \in {"source:file", "source:function"}]_vars

\* a rule was added after the source rule of the store had expired: the
\* cache counts the new rule only and no source rule
C24_Witness ==
    /\ caller.op = "AddFilter" /\ caller.filter = LaterJob
    /\ now = 2
    /\ Got(filterArrays, handlers[1]) = <<ExpiringRun, LaterJob>>
    /\ handlers[1].lowestLevel = LevelWarn
    /\ ~handlers[1].hasSourceFilters

\* C25: in every state, whatever time has passed since the last mutation,
\* the cached lowestLevel is at most the least parsed level of the rules of
\* the store that are active now, and hasSourceFilters is true if a rule of
\* type "source:file" or "source:function" of the store is active now.
C25_CacheConservative ==
    LET rules == Got(filterArrays, handlers[1])
    IN  /\ \A i \in ActiveNow(rules) :
                handlers[1].lowestLevel <= ParseLevel(rules[i].Level)
        /\ (\E i \in ActiveNow(rules) :
                rules[i].Type \in {"source:file", "source:function"})
                    => handlers[1].hasSourceFilters

\* the source rule at Debug has expired since the last mutation: the cache
\* still says Debug and source rules, the rule left active is at Warn
C25_Witness ==
    /\ now = 2
    /\ Got(filterArrays, handlers[1]) = <<ExpiringRun, LaterJob>>
    /\ ActiveNow(Got(filterArrays, handlers[1])) = {2}
    /\ handlers[1].lowestLevel = LevelDebug
    /\ handlers[1].hasSourceFilters

----------------------------------------------------------------------------
(* Claims about the stores of derived handlers, under SpecShare *)

\* C26: after any sequence of derivations and of mutations on the original
\* and on derived handlers, every handler evaluates the rules that the
\* mutations of its own store gave it, with the cache computed from them at
\* its last mutation; a mutation of one handler changes no rule of another.
C26_StoreIntegrity ==
    \A h \in 1..Len(handlers) : Holds(filterArrays, handlers[h]) = caller.log[h]

----------------------------------------------------------------------------
(* Claims about derivation during a mutation, under SpecRace *)

\* C27: a handler derived while the store of its parent is mutated holds a
\* rule list, a lowestLevel and a hasSourceFilters that all belong to one
\* state of the parent's store, the one before or the one after a mutation;
\* so its lowestLevel is at most the level of every active rule it holds and
\* its hasSourceFilters is true if it holds an active source rule.
C27_DerivedFromOneState ==
    \A d \in Derived :
        /\ \E i \in DOMAIN caller.log : Holds(filterArrays, handlers[d]) = caller.log[i]
        /\ \A i \in ActiveNow(FiltersOf(filterArrays, handlers[d])) :
            /\ handlers[d].lowestLevel
                    <= ParseLevel(FiltersOf(filterArrays, handlers[d])[i].Level)
            /\ IsSourceFilter(FiltersOf(filterArrays, handlers[d])[i])
                    => handlers[d].hasSourceFilters

----------------------------------------------------------------------------
(* Claims about which locks a goroutine holds, under SpecLocks *)

\* the mutexes goroutine t holds, for writing or for reading
HeldBy(t) == {l \in DOMAIN locks : locks[l].writer = t \/ t \in locks[l].readers}

\* goroutine t is in a call of the filter lock, or past it and before the
\* matching unlock
AtFilterLock(t) ==
    \/ "filtersLock" \in HeldBy(t)
    \/ threads[t].left # <<>> /\ Next1(t).on = "filtersLock"

\* C28: the filter store, the extractor registry and the default-handler
\* slot have a mutex each (the level is a slog.LevelVar, with no mutex of the
\* package), no goroutine ever holds two of them, and a package-level store
\* function has released the default-handler lock when it calls, waits for
\* or holds the filter lock of the handler.
C28_LockDiscipline ==
    /\ DOMAIN locks = {"filtersLock", "contextExtractorsLock", "defaultHandlerLock"}
    /\ \A t \in Threads :
        /\ Cardinality(HeldBy(t)) <= 1
        /\ AtFilterLock(t) => "defaultHandlerLock" \notin HeldBy(t)

\* the package-level SetFilters holds the filter lock of the default handler
\* for writing while New, in another goroutine, holds the slot for writing
C28_Witness ==
    /\ threads[1].op = "logfilter.SetFilters" /\ locks["filtersLock"].writer = 1
    /\ threads[2].op = "New" /\ locks["defaultHandlerLock"].writer = 2

----------------------------------------------------------------------------
(* Claims about calls made from inside Handle, under SpecReentrant *)

\* goroutine t is in pattern matching, call-site resolution, an extractor or
\* the inner handler, and in no method that code has called
InUserCode(t) == Running(t, "call")

\* C29: while Handle matches a pattern, resolves the call site, calls an
\* extractor or calls the inner handler, its goroutine holds no lock; so a
\* store or registry method called from the extractor or the inner handler
\* never waits for a lock its own goroutine holds, and whenever goroutines
\* are in a call one of them can take its next step; and the rules Handle
\* reads through its snapshot stay the rules the store held when the
\* snapshot was taken.
C29_NoLockInUserCode ==
    /\ \A t \in Threads :
        /\ InUserCode(t) => HeldBy(t) = {}
        /\ Stuck(t) => Next1(t).on \notin HeldBy(t)
    /\ (\E t \in Threads : threads[t].pc # "idle")
            => \E t \in Threads : threads[t].pc # "idle" /\ ~Stuck(t)
    /\ threads[1].op = "Handle" /\ call.pc = "evaluate"
            => Elems(filterArrays, call.filters) = call.snapshot

\* the inner handler, called by Handle, has called a store method that has
\* returned and has left the store with other rules than the snapshot's
C29_Witness ==
    /\ InUserCode(1) /\ Next1(1).on = "inner"
    /\ threads[1].op = "Handle" /\ call.pc = "evaluate"
    /\ caller.n > 0
    /\ call.snapshot # <<>>
    /\ FiltersOf(filterArrays, handlers[1]) # call.snapshot
    /\ \A t \in Threads \ {1} : threads[t].pc = "idle" /\ threads[t].op = ""

----------------------------------------------------------------------------
(* Claims about what evaluation leaves alone, under SpecFrame *)

\* what the handlers hs hold over the heaps fa and aa: for each its rules,
\* what GetFilters returns, the two cached fields, the pre-bound attributes
\* and what is bound to its inner handler
Shared(fa, aa, hs) ==
    [h \in 1..Len(hs) |->
        [rules |-> FiltersOf(fa, hs[h]),
         got |-> Got(fa, hs[h]),
         lowestLevel |-> hs[h].lowestLevel,
         hasSourceFilters |-> hs[h].hasSourceFilters,
         preformattedAttrs |-> Elems(aa, hs[h].preformattedAttrs),
         inner |-> hs[h].inner]]

\* a step of Enabled or of Handle
Evaluates == call' # call /\ ~(call.pc = "evaluate" /\ call'.pc = "evaluate")

\* C30: a step of Enabled or Handle leaves the rules of every handler, its
\* lowestLevel and hasSourceFilters, its pre-bound attributes, the registry
\* and the global level as they were; a Handle call that ends has matched no
\* expired rule, and GetFilters on its handler returns the rules the store
\* held before, the expired ones included.
C30_EvaluationFrame ==
    [][Evaluates =>
        /\ Shared(filterArrays', attrArrays', handlers')
                = Shared(filterArrays, attrArrays, handlers)
        /\ contextExtractors' = contextExtractors
        /\ globalLevel' = globalLevel
        /\ HandleEnds =>
            /\ call'.matched # 0 => ~IsExpired(call.snapshot[call'.matched])
            /\ Got(filterArrays', handlers'[call.h])
                    = FiltersOf(filterArrays, handlers[call.h])]_vars

\* Handle on a derived handler with pre-bound attributes has ended without
\* calling the inner handler, and the store still holds an expired rule
C30_Witness ==
    /\ call.pc = "done" /\ call.op = "Handle" /\ ~call.emitted
    /\ call.h \in Derived
    /\ handlers[call.h].preformattedAttrs.len > 0
    /\ \E i \in 1..handlers[call.h].filters.len :
            IsExpired(FiltersOf(filterArrays, handlers[call.h])[i])
    /\ contextExtractors["user"] = "userID"

----------------------------------------------------------------------------
(* Claims about what Handle does with the inner handler, under Spec *)

\* C31: a Handle call that ends has called the inner handler at most once;
\* if the record is below the effective level the inner handler was not
\* called and Handle returns nil; otherwise it was called once, with the
\* context given to Handle and the record to emit, and Handle returns what
\* that call returned, its error included.
C31_HandleOutcome ==
    [][HandleEnds =>
        LET e == Evaluation(call'.ctx, call'.r)
        IN  /\ Len(call'.invoked) <= 1
            /\ IF ~e.emitted
               THEN call'.invoked = <<>> /\ call'.ret = "nil"
               ELSE /\ Len(call'.invoked) = 1
                    /\ call'.invoked[1].ctx = call'.ctx
                    /\ call'.invoked[1].record = e.record
                    /\ call'.ret = call'.invoked[1].result]_vars

\* the inner handler has returned an error, and Handle has returned it
C31_Witness ==
    /\ call.pc = "done" /\ call.op = "Handle"
    /\ Len(call.invoked) = 1
    /\ call.invoked[1].result = "err"
    /\ call.invoked[1].ctx = WithUser("ab")
    /\ call.ret = "err"

----------------------------------------------------------------------------
(* Claims about the kind of a rule, under SpecKind *)

\* the kind of a rule by its raw type string, and the key that goes with it
KindOf(type) ==
    IF type = "source:file" THEN "SourceFile"
    ELSE IF type = "source:function" THEN "SourceFunction"
    ELSE IF StartsWith(type, "context:") THEN "Context"
    ELSE "Attribute"

KeyOf(type) ==
    CASE KindOf(type) = "Context" -> SubSeq(type, 9, Len(type))
      [] KindOf(type) = "Attribute" -> type
      [] OTHER -> ""

\* the value a rule of that type is to be matched against for (ctx, r)
ValueBy(type, ctx, r) ==
    CASE KindOf(type) = "SourceFile" ->
            [value |-> SourceRead(r).file, found |-> SourceRead(r).file # ""]
      [] KindOf(type) = "SourceFunction" ->
            [value |-> SourceRead(r).function, found |-> SourceRead(r).function # ""]
      [] KindOf(type) = "Context" ->
            IF ctx.isNil \/ KeyOf(type) \notin DOMAIN contextExtractors
                \/ contextExtractors[KeyOf(type)] = "nil"
            THEN [value |-> "", found |-> FALSE]
            ELSE RunExtractor(contextExtractors[KeyOf(type)], ctx)
      [] OTHER ->
            LET attrs == FlattenAttrs(call.attrs, r.Attrs)
            IN  IF type \in DOMAIN attrs
                THEN [value |-> attrs[type], found |-> TRUE]
                ELSE [value |-> "", found |-> FALSE]

\* C32: every rule read by a Handle call that ends has one kind, given by
\* its raw type: "source:file" and "source:function" exactly, else Context
\* with the rest as key for a type beginning with "context:", else Attribute
\* with the whole type as key; the rule's own functions say the same, its
\* AttributeKey is empty unless it is an Attribute rule, and the rule, which
\* matches every value, has won exactly if a value of its kind was found.
C32_KindByType ==
    [][HandleEnds =>
        \A i \in 1..Len(RulesRead) :
            LET f == RulesRead[i]
                kind == KindOf(f.Type)
            IN  /\ IsSourceFileFilter(f) = (kind = "SourceFile")
                /\ IsSourceFunctionFilter(f) = (kind = "SourceFunction")
                /\ IsContextFilter(f) = (kind = "Context")
                /\ ContextKey(f) = (IF kind = "Context" THEN KeyOf(f.Type) ELSE "")
                /\ AttributeKey(f) = (IF kind = "Attribute" THEN f.Type ELSE "")
                /\ Candidate(f, FlattenAttrs(call.attrs, call'.r.Attrs), contextExtractors,
                             call'.ctx, SourceRead(call'.r))
                        = ValueBy(f.Type, call'.ctx, call'.r)
                /\ (call'.matched = 1) = ValueBy(f.Type, call'.ctx, call'.r).found]_vars

\* a rule of type "source:files" has won on the attribute of that name, of
\* a record that has a call site
C32_Witness ==
    /\ call.pc = "done" /\ call.op = "Handle" /\ call.matched = 1
    /\ FiltersOf(filterArrays, handlers[1]) = <<TypedRule("source:files")>>
    /\ call.r.PC = 1
    /\ call.emitted

----------------------------------------------------------------------------
(* Claims about the attributes a rule is matched against, under SpecAttrs *)

\* the attributes bound to handler h by the WithAttrs calls that led to it,
\* in the order of the calls
RECURSIVE BoundTo(_)
BoundTo(h) ==
    IF handlers[h].parent = 0 THEN <<>>
    ELSE BoundTo(handlers[h].parent) \o handlers[h].given

HasKey(attrs, k) == \E i \in 1..Len(attrs) : attrs[i].Key = k

\* the value, as a string, of the last attribute of attrs with key k
LastOf(attrs, k) ==
    LET last == CHOOSE i \in 1..Len(attrs) :
                    /\ attrs[i].Key = k
                    /\ \A j \in (i + 1)..Len(attrs) : attrs[j].Key # k
    IN  attrValueToString(attrs[last].Value)

\* C33: when a Handle call ends, an active attribute rule with key k has
\* been matched against the last attribute with key k of the record if the
\* record has one, else against the last one with key k bound to the handler
\* by the chain of WithAttrs that made it, and has been skipped if there is
\* neither; the first such rule whose pattern matches has won.
C33_ExplicitOverPrebound ==
    [][HandleEnds =>
        LET r == call'.r
            bound == BoundTo(call.h)
            value(k) == IF HasKey(r.Attrs, k) THEN LastOf(r.Attrs, k) ELSE LastOf(bound, k)
            present(k) == HasKey(r.Attrs, k) \/ HasKey(bound, k)
            hit(i) == /\ LiveRule(RulesRead[i])
                      /\ present(RulesRead[i].Type)
                      /\ matchPattern(RulesRead[i].Pattern, value(RulesRead[i].Type))
        IN  /\ \A i \in 1..Len(RulesRead) : KindOf(RulesRead[i].Type) = "Attribute"
            /\ IF \E i \in 1..Len(RulesRead) : hit(i)
               THEN call'.matched # 0 /\ hit(call'.matched)
                    /\ \A j \in 1..(call'.matched - 1) : ~hit(j)
               ELSE call'.matched = 0]_vars

----------------------------------------------------------------------------
(* Claims about call-site resolution in Handle, under Spec *)

\* C34: a Handle call that ends has called extractSource at most once, and
\* has called it only if the hasSourceFilters of its snapshot is true and the
\* PC of the record is not 0; if the store held no source rule when the
\* snapshot was taken it has not called it.
C34_LazyResolution ==
    [][HandleEnds =>
        /\ call'.resolved <= 1
        /\ call'.resolved = 1 => call.hasSourceFilters /\ call'.r.PC # 0
        /\ (\A i \in 1..Len(call.snapshot) :
                call.snapshot[i].Type \notin {"source:file", "source:function"})
            => call'.resolved = 0]_vars

\* a call whose snapshot has a source rule has resolved the call site; the
\* record has won on the function name
C34_Witness ==
    /\ call.pc = "done" /\ call.op = "Handle"
    /\ call.resolved = 1
    /\ call.r.PC = 1
    /\ call.matched # 0

----------------------------------------------------------------------------
(* Claims about source rules without a resolved value, under SpecSource *)

\* the resolved value rule f is matched against, for record r
SourceValue(f, r) ==
    IF f.Type = "source:file" THEN SourceRead(r).file ELSE SourceRead(r).function

\* C35: when a Handle call ends, an active source:file or source:function
\* rule whose resolved value is empty has not won, whatever its pattern, and
\* the call has decided as it would have without that rule: the winner, the
\* emit decision and the record sent are those of the list with the rule
\* left out.
C35_EmptySourceSkipped ==
    [][HandleEnds =>
        \A i \in 1..Len(RulesRead) :
            (/\ RulesRead[i].Type \in {"source:file", "source:function"}
             /\ LiveRule(RulesRead[i])
             /\ SourceValue(RulesRead[i], call'.r) = "") =>
                LET r == call'.r
                    e == Evaluate(handlers[call.h].workDir, call.effectiveLevel,
                                  FlattenAttrs(call.attrs, r.Attrs), Without(RulesRead, i),
                                  call.hasSourceFilters, contextExtractors, call'.ctx, r)
                IN  /\ call'.matched # i
                    /\ call'.matched = (IF e.matched >= i THEN e.matched + 1 ELSE e.matched)
                    /\ call'.emitted = e.emitted
                    /\ call'.emitted => call'.sent = e.record]_vars

\* a record without call site has passed the source:file rule with pattern
\* "*" and has won on the attribute rule after it
C35_Witness ==
    /\ call.pc = "done" /\ call.op = "Handle"
    /\ FiltersOf(filterArrays, handlers[1]) = <<FileAny, LaterJob>>
    /\ call.r.PC = 0
    /\ call.matched = 2
    /\ call.emitted

\* the working-directory tree: what lies under workDir
TreePrefix(workDir) == IF workDir = "/" THEN "/" ELSE workDir \o "/"

InTree(workDir, filePath) ==
    /\ workDir # ""
    /\ HasPrefix(filePath, TreePrefix(workDir))
    /\ Len(filePath) > Len(TreePrefix(workDir))

\* C36: for every call-site file inside the handler's working-directory tree,
\* at any depth and with any file or directory names, the resolved file is
\* the path relative to the working directory, not one of the fallbacks
C36_InTreeRelative ==
    (probe.pc = "done" /\ InTree(probe.workDir, probe.filePath))
        => probe.file = SubSeq(probe.filePath, Len(TreePrefix(probe.workDir)) + 1,
                               Len(probe.filePath))

\* the positions of the name after its last '/', and of the '.' among them
AfterLastSlash(fn) ==
    {i \in 1..Len(fn) : \A j \in i..Len(fn) : SubSeq(fn, j, j) # "/"}

DotsAfterSlash(fn) == {i \in AfterLastSlash(fn) : SubSeq(fn, i, i) = "."}

FirstDot(fn) == CHOOSE i \in DotsAfterSlash(fn) : \A j \in DotsAfterSlash(fn) : i <= j

HasSlash(fn) == \E i \in 1..Len(fn) : SubSeq(fn, i, i) = "/"

BareName(filePath) == Elements(filePath)[Len(Elements(filePath))]

\* the two fallback tiers of the claim
Tier(filePath, fn) ==
    IF HasSlash(fn) /\ DotsAfterSlash(fn) # {}
    THEN "@" \o SubSeq(fn, 1, FirstDot(fn) - 1) \o "/" \o BareName(filePath)
    ELSE BareName(filePath)

WorkDirUnknown == probe.workDir = ""

RelFails == probe.workDir # "" /\ HasPrefix(probe.workDir, "/") # HasPrefix(probe.filePath, "/")

NeedsParent ==
    /\ probe.workDir # ""
    /\ HasPrefix(probe.workDir, "/") = HasPrefix(probe.filePath, "/")
    /\ ~InTree(probe.workDir, probe.filePath)

\* C37: original statement: on an unknown working directory, a failed
\* relativization or a parent traversal the resolved file is the module tier
\* or the bare-name tier, and no resolved file begins with ".."
C37_Original ==
    probe.pc = "done" =>
        /\ (WorkDirUnknown \/ RelFails \/ NeedsParent)
                => probe.file = Tier(probe.filePath, probe.functionName)
        /\ probe.file # ""
        /\ ~HasPrefix(probe.file, "..")

\* C37: on an unknown working directory, a failed relativization or a parent
\* traversal the resolved file is the module tier or the bare-name tier, and
\* the first element of a resolved file is never the parent directory ".."
C37_FallbackTiers ==
    probe.pc = "done" =>
        /\ (WorkDirUnknown \/ RelFails \/ NeedsParent)
                => probe.file = Tier(probe.filePath, probe.functionName)
        /\ probe.file # ""
        /\ Elements(probe.file)[1] # ".."

C37_Witness ==
    /\ probe.pc = "done"
    /\ NeedsParent
    /\ probe.filePath = "/go/b.go"
    /\ probe.functionName = "x.io/q.Do"
    /\ probe.file = "@x.io/q/b.go"

\* C38: the resolved function of a name with '/' is the text after the first
\* '.' that follows the last '/', receiver qualifier included; of a name
\* without '/' the text after its first '.'; a name with no '.' there is
\* returned unchanged, and an empty name gives an empty result
C38_FunctionName ==
    probe.pc = "done" =>
        LET fn == probe.functionName
        IN  /\ DotsAfterSlash(fn) # {}
                => probe.function = SubSeq(fn, FirstDot(fn) + 1, Len(fn))
            /\ DotsAfterSlash(fn) = {} => probe.function = fn
            /\ fn = "" => probe.function = ""
            /\ fn = "github.com/pkg/service.(*Service).Method"
                => probe.function = "(*Service).Method"

C38_Witness ==
    /\ probe.pc = "done"
    /\ probe.functionName = "github.com/pkg/service.(*Service).Method"
    /\ probe.function = "(*Service).Method"

\* the handler of the most recent New that has returned, 0 before the first
MostRecent ==
    IF threads[1].made = <<>> THEN 0 ELSE threads[1].made[Len(threads[1].made)]

\* the rules of handler h after the step
RulesAfter(h) == FiltersOf(filterArrays', handlers'[h])

\* what the method called leaves in the store of the handler it is called on
MethodLeaves(before) ==
    CASE caller'.op = "SetFilters" -> caller'.got
      [] caller'.op = "AddFilter" -> Append(before, caller'.filter)
      [] caller'.op = "RemoveFilter" ->
            SelectSeq(before, LAMBDA f : ~(f.Type = caller'.filterType
                                            /\ f.Pattern = caller'.pattern))
      [] caller'.op = "ClearFilters" -> <<>>
      [] OTHER -> before

PackageReturns == caller.pc = "slot read" /\ caller'.pc = "returned"

\* C39: a package-level filter function finds the handler of the most recent
\* New that has returned; finding none it changes nothing and GetFilters
\* returns nil; finding one it acts on that handler and on no other; and when
\* New puts its handler in the slot the initial filters are already in it
C39_DefaultSlot ==
    [][/\ (caller'.pc = "slot read" /\ caller.pc # "slot read")
            => caller'.target = MostRecent
       /\ (PackageReturns /\ caller.target = 0)
            => /\ handlers' = handlers
               /\ filterArrays' = filterArrays
               /\ caller'.returned = IF caller.op = "GetFilters" THEN "nil" ELSE "none"
       /\ (PackageReturns /\ caller.target # 0)
            => /\ \A h \in 1..Len(handlers) :
                    RulesAfter(h) = IF h = caller.target
                                    THEN MethodLeaves(FiltersOf(filterArrays, handlers[h]))
                                    ELSE FiltersOf(filterArrays, handlers[h])
               /\ caller.op = "GetFilters"
                    => /\ caller'.returned = "slice"
                       /\ caller'.got = FiltersOf(filterArrays, handlers[caller.target])
       /\ defaultHandler' # defaultHandler
            => RulesAfter(defaultHandler') = threads[1].o.filters]_vars

\* AddFilter has acted on the handler of the second New, made with an
\* initial filter, and the handler of the first New has its own rule
C39_Witness ==
    /\ caller.pc = "returned" /\ caller.op = "AddFilter" /\ caller.target = 2
    /\ threads[1].made = <<1, 2>> /\ defaultHandler = 2
    /\ FiltersOf(filterArrays, handlers[2]) = <<DebugJobA, ErrorUser>>
    /\ FiltersOf(filterArrays, handlers[1]) = <<DebugJobA>>

\* the level option of the New that has set the level last: Info without WithLevel
LastLevelOption ==
    LET opts == threads[1].set[Len(threads[1].set)]
    IN  IF opts.withLevel THEN opts.level ELSE LevelInfo

\* the handlers of the New calls before the most recent one
EarlierHandlers == {threads[1].made[i] : i \in 1..(Len(threads[1].made) - 1)}

\* C40: New sets the one dynamic level to its own option, Info by default;
\* every logger New has returned, the earlier ones included, logs under the
\* level of the New that set it last; New leaves the rule lists of the
\* earlier loggers as they are, and a package-level filter function called
\* after a later New has returned does not reach them
C40_SharedLevelOwnRules ==
    [][/\ Len(threads'[1].set) > Len(threads[1].set)
            => globalLevel' = IF threads[1].given.withLevel
                              THEN threads[1].given.level ELSE LevelInfo
       /\ (call'.pc = "evaluate" /\ call.pc # "evaluate")
            => call'.effectiveLevel = LastLevelOption
       /\ threads' # threads
            => \A h \in Returned : RulesAfter(h) = FiltersOf(filterArrays, handlers[h])
       /\ (caller'.pc = "slot read" /\ caller.pc # "slot read")
            => caller'.target \notin EarlierHandlers
       /\ PackageReturns
            => \A h \in EarlierHandlers :
                    h # caller.target => RulesAfter(h) = FiltersOf(filterArrays, handlers[h])]_vars

\* after a second New, with WithLevel(Debug), a Handle call of the logger of
\* the first New has read the Debug level and the rule the first New
\* installed, while SetFilters has replaced the rules of the second
C40_Witness ==
    /\ threads[1].made = <<1, 2>> /\ threads[1].pc = "idle"
    /\ Len(threads[1].set) = 2 /\ ~threads[1].set[1].withLevel
    /\ threads[1].set[2].withLevel /\ threads[1].set[2].level = LevelDebug
    /\ call.pc = "evaluate" /\ call.op = "Handle" /\ call.h = 1
    /\ call.effectiveLevel = LevelDebug /\ call.snapshot = <<DebugJobA>>
    /\ caller.pc = "returned" /\ caller.op = "SetFilters" /\ caller.target = 2
    /\ FiltersOf(filterArrays, handlers[1]) = <<DebugJobA>>
    /\ FiltersOf(filterArrays, handlers[2]) = <<ErrorUser>>

====
